---- MODULE Spec2Model ----
(***************************************************************************)
(* HIPAA audit and violation-detection engine (backend/app/audit.py).      *)
(*                                                                         *)
(* Time is counted in whole minutes since local midnight of day 0:  the    *)
(* hour of a timestamp t is (t \div 60) % 24, its date is t \div 1440.     *)
(* Every datetime.now() of the code is one read of the clock `now`; the    *)
(* clock may advance between two reads made by the same log_event call.    *)
(***************************************************************************)
EXTENDS Integers, Sequences, FiniteSets, TLC

VARIABLES
    events,              \* HIPAAAuditLogger._events
    event_counter,       \* HIPAAAuditLogger._event_counter
    user_access_counts,  \* HIPAAAuditLogger._user_access_counts
    now,                 \* the wall clock read by datetime.now()
    last,                \* the last completed log_event call: arguments, clock reads, result
    calls,               \* number of log_event calls made by the callers being explored
    ticks,               \* number of clock advances between calls
    result,              \* the value returned by the last query
    pc,                  \* per thread: position inside log_event (threaded callers)
    loc,                 \* per thread: the local variables of its log_event call
    audit_logger,        \* the module global _audit_logger: NoInstance or the number of an instance
    instances,           \* every HIPAAAuditLogger constructed by racing get_audit_logger calls
    appointments         \* data.sample_appointments.appointments_db

vars == <<events, event_counter, user_access_counts, now, last, calls, ticks, result, pc, loc, audit_logger, instances, appointments>>

(***************************************************************************)
(* Bounds of the exploration.                                              *)
(***************************************************************************)
MaxNew == 1        \* log_event calls explored with free arguments after the workload
MaxTicks == 2      \* clock advances between calls
NumThreads == 2    \* concurrent callers of log_event

(***************************************************************************)
(* Configuration of HIPAAAuditLogger.__init__ and literals of the code.    *)
(***************************************************************************)
business_hours_start == 7
business_hours_end == 19
max_patient_access_per_hour == 20
max_bulk_access_threshold == 10
RecentWindowMinutes == 60
BulkWindowMinutes == 10
IdWidth == 6

\* Python's None for the optional string fields.
None == "None"

\* Python truthiness of an Optional[str]: None and "" are falsy.
Truthy(s) == s # None /\ s # ""

AuditEventType ==
    { "view_patient", "view_health_record", "view_chat_history", "view_appointments",
      "create_appointment", "update_appointment", "update_patient",
      "login", "logout", "login_failed",
      "unauthorized_access", "bulk_data_access", "after_hours_access", "excessive_queries" }

ViolationSeverity == { "low", "medium", "high", "critical" }

\* violation_reason unset (None); a set reason is a tuple: the text, then the values
\* formatted into it.
NoReason == << >>

ReasonUnauthorized == << "Attempted unauthorized access to PHI" >>
ReasonAfterHours(t) == << "After-hours PHI access at", (t \div 60) % 24, t % 60 >>
ReasonSelfAccess == << "Patient attempted to access another patient's records" >>
ReasonExcessive(n) == << "Excessive PHI queries: accesses in last hour", n >>
ReasonBulk(n) == << "Bulk PHI access: different patients in 10 minutes", n >>

\* details: a dict; the only key the engine reads is "user_patient_id".
EmptyDetails == [k \in {} |-> None]
DetailsWith(upid) == [k \in {"user_patient_id"} |-> upid]
\* details=None at the call
NoDetails == [k \in {"<None>"} |-> None]

\* dict.get(key): None when the key is absent
DictGet(d, key) == IF key \in DOMAIN d THEN d[key] ELSE None

\* details stored as given, without the `or {}`
DetailsOrEmpty_AsGiven(d) == d

\* `details or {}`
DetailsOrEmpty(d) == IF d = NoDetails \/ d = EmptyDetails THEN EmptyDetails ELSE d

(***************************************************************************)
(* f"AUD-{n:06d}": the decimal digits of n, zero-padded to width 6.        *)
(***************************************************************************)
RECURSIVE Digits(_)
Digits(n) == IF n < 10 THEN << n >> ELSE Append(Digits(n \div 10), n % 10)

RECURSIVE ZeroPad(_, _)
ZeroPad(ds, width) == IF Len(ds) >= width THEN ds ELSE ZeroPad(<< 0 >> \o ds, width)

\* the id formatted from the last digit of the counter only
FormatEventId_LastDigit(n) == [prefix |-> "AUD-", digits |-> ZeroPad(Digits(n % 10), IdWidth)]

FormatEventId(n) == [prefix |-> "AUD-", digits |-> ZeroPad(Digits(n), IdWidth)]

(***************************************************************************)
(* AuditEvent(...) as constructed by log_event: annotation fields default. *)
(***************************************************************************)
AuditEvent(event_id, t, call) ==
    [ id                 |-> event_id,
      timestamp          |-> t,
      event_type         |-> call.event_type,
      user_id            |-> call.user_id,
      user_email         |-> call.user_email,
      user_role          |-> call.user_role,
      resource_type      |-> call.resource_type,
      resource_id        |-> call.resource_id,
      patient_id         |-> call.patient_id,
      ip_address         |-> call.ip_address,
      details            |-> DetailsOrEmpty(call.details),
      is_violation       |-> FALSE,
      violation_severity |-> None,
      violation_reason   |-> NoReason ]

(***************************************************************************)
(* _count_recent_access: sum(1 for e in self._events if ...), with the     *)
(* cutoff taken from the clock read `t` made by the scan itself.           *)
(***************************************************************************)
RECURSIVE SumMatching(_, _, _, _)
SumMatching(evs, i, user_id, cutoff) ==
    IF i > Len(evs) THEN 0
    ELSE (IF evs[i].user_id = user_id /\ evs[i].timestamp > cutoff
             /\ Truthy(evs[i].patient_id)
          THEN 1 ELSE 0)
         + SumMatching(evs, i + 1, user_id, cutoff)

CountRecentAccess(evs, user_id, minutes, t) ==
    SumMatching(evs, 1, user_id, t - minutes)

(***************************************************************************)
(* _count_unique_patients_accessed: len(set(e.patient_id for e in ...)).   *)
(***************************************************************************)
\* the count taken over the matching events instead of their distinct patient ids
CountUniquePatientsAccessed_NotDistinct(evs, user_id, minutes, t) ==
    LET cutoff == t - minutes
    IN Cardinality({ j \in 1..Len(evs) :
                       /\ evs[j].user_id = user_id
                       /\ evs[j].timestamp > cutoff
                       /\ Truthy(evs[j].patient_id) })

CountUniquePatientsAccessed(evs, user_id, minutes, t) ==
    LET cutoff == t - minutes
        patients == { evs[i].patient_id :
                        i \in { j \in 1..Len(evs) :
                                  /\ evs[j].user_id = user_id
                                  /\ evs[j].timestamp > cutoff
                                  /\ Truthy(evs[j].patient_id) } }
    IN Cardinality(patients)

(***************************************************************************)
(* _check_for_violations, one check at a time.  Each takes the event as    *)
(* annotated so far and returns it as annotated by that check.             *)
(***************************************************************************)
IsUnauthorized(event) == event.event_type = "unauthorized_access"

Check1(event) ==
    [event EXCEPT !.is_violation = TRUE,
                  !.violation_severity = "high",
                  !.violation_reason = ReasonUnauthorized]

\* Check2 with the end of business hours taken as `>` instead of `>=`
Check2_EndExclusive(event) ==
    LET current_hour == (event.timestamp \div 60) % 24
    IN IF /\ (current_hour < business_hours_start \/ current_hour > business_hours_end)
          /\ event.event_type \in {"view_patient", "view_health_record"}
       THEN [event EXCEPT !.is_violation = TRUE,
                          !.violation_severity = "low",
                          !.violation_reason = ReasonAfterHours(event.timestamp),
                          !.event_type = "after_hours_access"]
       ELSE event

Check2(event) ==
    LET current_hour == (event.timestamp \div 60) % 24
    IN IF /\ (current_hour < business_hours_start \/ current_hour >= business_hours_end)
          /\ event.event_type \in {"view_patient", "view_health_record"}
       THEN [event EXCEPT !.is_violation = TRUE,
                          !.violation_severity = "low",
                          !.violation_reason = ReasonAfterHours(event.timestamp),
                          !.event_type = "after_hours_access"]
       ELSE event

\* Check3 that leaves an event alone once an earlier check flagged it
Check3_KeepsEarlier(event) ==
    LET user_patient_id == DictGet(event.details, "user_patient_id")
    IN IF /\ ~event.is_violation
          /\ event.user_role = "patient"
          /\ Truthy(event.patient_id)
          /\ Truthy(user_patient_id)
          /\ event.patient_id # user_patient_id
       THEN [event EXCEPT !.is_violation = TRUE,
                          !.violation_severity = "critical",
                          !.violation_reason = ReasonSelfAccess]
       ELSE event

\* Check3 without the presence test on user_patient_id
Check3_NoPresenceTest(event) ==
    LET user_patient_id == DictGet(event.details, "user_patient_id")
    IN IF /\ event.user_role = "patient"
          /\ Truthy(event.patient_id)
          /\ event.patient_id # user_patient_id
       THEN [event EXCEPT !.is_violation = TRUE,
                          !.violation_severity = "critical",
                          !.violation_reason = ReasonSelfAccess]
       ELSE event

Check3(event) ==
    LET user_patient_id == DictGet(event.details, "user_patient_id")
    IN IF /\ event.user_role = "patient"
          /\ Truthy(event.patient_id)
          /\ Truthy(user_patient_id)
          /\ event.patient_id # user_patient_id
       THEN [event EXCEPT !.is_violation = TRUE,
                          !.violation_severity = "critical",
                          !.violation_reason = ReasonSelfAccess]
       ELSE event

\* Check4 with the threshold reached instead of exceeded
Check4_AtLeast(event, recent_access) ==
    IF recent_access >= max_patient_access_per_hour
    THEN [event EXCEPT !.is_violation = TRUE,
                       !.violation_severity = "medium",
                       !.violation_reason = ReasonExcessive(recent_access),
                       !.event_type = "excessive_queries"]
    ELSE event

\* Check4 that annotates the event without setting is_violation
Check4_NoFlag(event, recent_access) ==
    IF recent_access > max_patient_access_per_hour
    THEN [event EXCEPT !.violation_severity = "medium",
                       !.violation_reason = ReasonExcessive(recent_access),
                       !.event_type = "excessive_queries"]
    ELSE event

\* Check4 applied to events that carry a patient id only
Check4_PhiEventsOnly(event, recent_access) ==
    IF recent_access > max_patient_access_per_hour /\ Truthy(event.patient_id)
    THEN [event EXCEPT !.is_violation = TRUE,
                       !.violation_severity = "medium",
                       !.violation_reason = ReasonExcessive(recent_access),
                       !.event_type = "excessive_queries"]
    ELSE event

Check4(event, recent_access) ==
    IF recent_access > max_patient_access_per_hour
    THEN [event EXCEPT !.is_violation = TRUE,
                       !.violation_severity = "medium",
                       !.violation_reason = ReasonExcessive(recent_access),
                       !.event_type = "excessive_queries"]
    ELSE event

\* Check5 that leaves an event alone once an earlier check flagged it
Check5_KeepsEarlier(event, unique_patients) ==
    IF ~event.is_violation /\ unique_patients >= max_bulk_access_threshold
    THEN [event EXCEPT !.is_violation = TRUE,
                       !.violation_severity = "high",
                       !.violation_reason = ReasonBulk(unique_patients),
                       !.event_type = "bulk_data_access"]
    ELSE event

\* Check5 that flags the event that reaches the threshold and none after it
Check5_ExactlyAtThreshold(event, unique_patients) ==
    IF unique_patients = max_bulk_access_threshold /\ Truthy(event.patient_id)
    THEN [event EXCEPT !.is_violation = TRUE,
                       !.violation_severity = "high",
                       !.violation_reason = ReasonBulk(unique_patients),
                       !.event_type = "bulk_data_access"]
    ELSE event

Check5(event, unique_patients) ==
    IF unique_patients >= max_bulk_access_threshold
    THEN [event EXCEPT !.is_violation = TRUE,
                       !.violation_severity = "high",
                       !.violation_reason = ReasonBulk(unique_patients),
                       !.event_type = "bulk_data_access"]
    ELSE event

\* _check_for_violations without the `return` that ends check 1
CheckForViolations_NoEarlyReturn(event, evs, t4, t5) ==
    LET e1 == IF IsUnauthorized(event) THEN Check1(event) ELSE event
        e3 == Check3(Check2(e1))
        e4 == Check4(e3, CountRecentAccess(evs, e3.user_id, RecentWindowMinutes, t4))
    IN Check5(e4, CountUniquePatientsAccessed(evs, e4.user_id, BulkWindowMinutes, t5))

\* The whole of _check_for_violations against the log `evs`; t4 and t5 are the
\* clock reads of the two scans.
CheckForViolations(event, evs, t4, t5) ==
    IF IsUnauthorized(event)
    THEN Check1(event)
    ELSE LET e3 == Check3(Check2(event))
             e4 == Check4(e3, CountRecentAccess(evs, e3.user_id, RecentWindowMinutes, t4))
         IN Check5(e4, CountUniquePatientsAccessed(evs, e4.user_id, BulkWindowMinutes, t5))

(***************************************************************************)
(* _track_access: a dict of dicts, user_id -> {date -> count}; `t` is the  *)
(* clock read of the tracker; the date string is the day number.           *)
(***************************************************************************)
DateOf(t) == t \div 1440

DictSet(d, key, val) == [k \in (DOMAIN d) \cup {key} |-> IF k = key THEN val ELSE d[k]]

\* the two setdefault-like statements (lines 188-191)
TrackEnsure(counts, user_id, today) ==
    LET c1 == IF user_id \in DOMAIN counts THEN counts
              ELSE DictSet(counts, user_id, << >>)
    IN IF today \in DOMAIN c1[user_id] THEN c1
       ELSE DictSet(c1, user_id, DictSet(c1[user_id], today, 0))

\* _track_access that returns early for None only (`if patient_id is None`)
TrackAccess_NoneOnly(counts, user_id, patient_id, t) ==
    IF patient_id = None THEN counts
    ELSE LET today == DateOf(t)
             c2 == TrackEnsure(counts, user_id, today)
         IN DictSet(c2, user_id, DictSet(c2[user_id], today, c2[user_id][today] + 1))

TrackAccess(counts, user_id, patient_id, t) ==
    IF ~Truthy(patient_id) THEN counts
    ELSE LET today == DateOf(t)
             c2 == TrackEnsure(counts, user_id, today)
         IN DictSet(c2, user_id, DictSet(c2[user_id], today, c2[user_id][today] + 1))

(***************************************************************************)
(* log_event run without interruption on the engine state `st`            *)
(* (events, event_counter, user_access_counts).  clk = <<t0, t4, t5, tt>>: *)
(* the clock reads of the stamp, the two scans and the tracker.            *)
(***************************************************************************)
\* log_event that puts the new event at the head of the log
RunLogEvent_Prepend(st, call, clk) ==
    LET counter == st.event_counter + 1
        event == CheckForViolations(AuditEvent(FormatEventId(counter), clk[1], call),
                                    st.events, clk[2], clk[3])
    IN [ events             |-> << event >> \o st.events,
         event_counter      |-> counter,
         user_access_counts |-> TrackAccess(st.user_access_counts, call.user_id,
                                            call.patient_id, clk[4]),
         ret                |-> event ]

RunLogEvent(st, call, clk) ==
    LET counter == st.event_counter + 1
        event == CheckForViolations(AuditEvent(FormatEventId(counter), clk[1], call),
                                    st.events, clk[2], clk[3])
    IN [ events             |-> Append(st.events, event),
         event_counter      |-> counter,
         user_access_counts |-> TrackAccess(st.user_access_counts, call.user_id,
                                            call.patient_id, clk[4]),
         ret                |-> event ]

(***************************************************************************)
(* The callers.  A call of log_event as the route handlers make it: the    *)
(* e-mail follows the user, resource_id repeats the patient id, and no     *)
(* caller passes ip_address.                                               *)
(***************************************************************************)
UserIds == { "UDOCTOR", "UP002" }

EmailOf(user_id) == IF user_id = "UDOCTOR" THEN "doctor@example.com"
                    ELSE "liam.parent@example.com"

Call(event_type, user_id, user_role, patient_id, details) ==
    [ event_type    |-> event_type,
      user_id       |-> user_id,
      user_email    |-> EmailOf(user_id),
      user_role     |-> user_role,
      resource_type |-> "patient",
      resource_id   |-> patient_id,
      patient_id    |-> patient_id,
      ip_address    |-> None,
      details       |-> details ]

\* patient ids "P01" .. "P21"
PatientIds ==
    << "P01", "P02", "P03", "P04", "P05", "P06", "P07", "P08", "P09", "P10", "P11",
       "P12", "P13", "P14", "P15", "P16", "P17", "P18", "P19", "P20", "P21" >>

\* The arguments explored for a call made after the workload.
InputEventTypes == { "view_patient", "view_health_record", "login", "unauthorized_access" }
InputRoles == { "doctor", "patient" }
InputPatientIds == { None, "P01", "P10" }
InputDetails == { NoDetails, DetailsWith("P01"), DetailsWith("") }

Calls ==
    { Call(ty, u, r, p, d) :
        ty \in InputEventTypes, u \in UserIds, r \in InputRoles,
        p \in InputPatientIds, d \in InputDetails }

\* Minutes the clock advances between the four clock reads of one call
\* (stamp -> rule 4 scan -> rule 5 scan -> tracker): none, or one minute at one place.
Drifts == { <<0, 0, 0>>, <<1, 0, 0>>, <<0, 1, 0>>, <<0, 0, 1>> }

ClockReads(t, drift) ==
    << t, t + drift[1], t + drift[1] + drift[2], t + drift[1] + drift[2] + drift[3] >>

\* Minutes the clock advances between calls.
TickAmounts == { 9, 50 }

\* Clock at the start: 06:55, 18:51 and 23:59 of day 0.
StartClocks == { 415, 1131, 1439 }

(***************************************************************************)
(* The workload already served when exploration starts: n PHI views by     *)
(* the doctor over k distinct patients (P01..Pk in rotation), then `extra` *)
(* logins (no patient id), all run through log_event at the start clock.   *)
(***************************************************************************)
Scenarios ==
    { [n |-> 0,  k |-> 1,  extra |-> 0],
      [n |-> 9,  k |-> 9,  extra |-> 0],
      [n |-> 9,  k |-> 9,  extra |-> 1],
      [n |-> 10, k |-> 10, extra |-> 0],
      [n |-> 20, k |-> 9,  extra |-> 0],
      [n |-> 20, k |-> 9,  extra |-> 1],
      [n |-> 21, k |-> 9,  extra |-> 0],
      [n |-> 21, k |-> 9,  extra |-> 1],
      [n |-> 21, k |-> 10, extra |-> 0] }

WorkloadCall(sc, i) ==
    IF i <= sc.n
    THEN Call("view_patient", "UDOCTOR", "doctor", PatientIds[((i - 1) % sc.k) + 1], NoDetails)
    ELSE Call("login", "UDOCTOR", "doctor", None, NoDetails)

EmptyEngine ==
    [ events |-> << >>, event_counter |-> 0, user_access_counts |-> << >>, ret |-> << >> ]

RECURSIVE Replay(_, _, _, _)
Replay(st, sc, i, t) ==
    IF i > sc.n + sc.extra THEN st
    ELSE Replay(RunLogEvent(st, WorkloadCall(sc, i), << t, t, t, t >>), sc, i + 1, t)

NoCall == [ op |-> "none" ]

\* _audit_logger: Optional[HIPAAAuditLogger] = None; instances are numbered from 1
NoInstance == 0

\* data.sample_appointments: the store seeded with today's first appointment (10:00)
appointments_db ==
    << [ id |-> "A001", patient_id |-> "P001", date |-> 600, status |-> "confirmed",
         notes |-> "Check healing progress after antibiotic treatment" ] >>

\* __init__ followed by the workload of scenario sc at clock t
InitFrom(sc, t) ==
    LET st == Replay(EmptyEngine, sc, 1, t)
    IN /\ events = st.events
       /\ event_counter = st.event_counter
       /\ user_access_counts = st.user_access_counts
       /\ now = t
       /\ last = NoCall
       /\ calls = 0
       /\ ticks = 0
       /\ result = NoCall
       /\ pc = [th \in 1..NumThreads |-> "idle"]
       /\ loc = [th \in 1..NumThreads |-> << >>]
       /\ audit_logger = NoInstance
       /\ instances = << >>
       /\ appointments = appointments_db

Init == \E sc \in Scenarios, t \in StartClocks : InitFrom(sc, t)

(***************************************************************************)
(* log_event called from the event loop: the handlers are `async def` and  *)
(* log_event never awaits, so a call runs to completion.                   *)
(***************************************************************************)
LogEvent ==
    /\ calls < MaxNew
    /\ \E call \in Calls, drift \in Drifts :
         LET clk == ClockReads(now, drift)
             st  == RunLogEvent([ events |-> events, event_counter |-> event_counter,
                                  user_access_counts |-> user_access_counts ], call, clk)
         IN /\ events' = st.events
            /\ event_counter' = st.event_counter
            /\ user_access_counts' = st.user_access_counts
            /\ now' = clk[4]
            /\ last' = [ op |-> "log_event", call |-> call, clk |-> clk, ret |-> st.ret ]
    /\ calls' = calls + 1
    /\ UNCHANGED <<ticks, result, pc, loc, audit_logger, instances, appointments>>

\* Time passes before a call.
Tick ==
    /\ calls < MaxNew
    /\ ticks < MaxTicks
    /\ \E d \in TickAmounts : now' = now + d
    /\ ticks' = ticks + 1
    /\ UNCHANGED <<events, event_counter, user_access_counts, last, calls, result, pc, loc, audit_logger, instances, appointments>>

Next == LogEvent \/ Tick

Spec == Init /\ [][Next]_vars

(***************************************************************************)
(* The query layer.  sorted(..., key=timestamp, reverse=True) is a stable  *)
(* sort: events with equal timestamps keep their log order.  lst[:limit]   *)
(* is Python slicing, which counts a negative limit from the end.          *)
(***************************************************************************)
RECURSIVE InsertByTimestampDesc(_, _, _)
InsertByTimestampDesc(sorted, e, i) ==
    IF i > Len(sorted) THEN Append(sorted, e)
    ELSE IF sorted[i].timestamp < e.timestamp
         THEN SubSeq(sorted, 1, i - 1) \o << e >> \o SubSeq(sorted, i, Len(sorted))
         ELSE InsertByTimestampDesc(sorted, e, i + 1)

RECURSIVE SortedByTimestampDesc(_, _, _)
SortedByTimestampDesc(evs, i, acc) ==
    IF i > Len(evs) THEN acc
    ELSE SortedByTimestampDesc(evs, i + 1, InsertByTimestampDesc(acc, evs[i], 1))

SortedRecentFirst(evs) == SortedByTimestampDesc(evs, 1, << >>)

Slice(lst, limit) ==
    IF limit >= 0
    THEN SubSeq(lst, 1, IF limit < Len(lst) THEN limit ELSE Len(lst))
    ELSE SubSeq(lst, 1, IF Len(lst) + limit > 0 THEN Len(lst) + limit ELSE 0)

\* A list comprehension [e for e in self._events if keep(e)] is
\* SelectSeq(evs, keep): the kept events, in log order.
GetAllEvents(evs, limit) == Slice(SortedRecentFirst(evs), limit)

GetViolations(evs, limit) ==
    LET keep(e) == e.is_violation
    IN Slice(SortedRecentFirst(SelectSeq(evs, keep)), limit)

\* the severity filter followed by the most-recent-first sort of the other queries
GetViolationsBySeverity_RecentFirst(evs, severity) ==
    LET keep(e) == e.is_violation /\ e.violation_severity = severity
    IN SortedRecentFirst(SelectSeq(evs, keep))

GetViolationsBySeverity(evs, severity) ==
    LET keep(e) == e.is_violation /\ e.violation_severity = severity
    IN SelectSeq(evs, keep)

GetUserActivity(evs, user_id, limit) ==
    LET keep(e) == e.user_id = user_id
    IN Slice(SortedRecentFirst(SelectSeq(evs, keep)), limit)

GetPatientAccessLog(evs, patient_id, limit) ==
    LET keep(e) == e.patient_id = patient_id
    IN Slice(SortedRecentFirst(SelectSeq(evs, keep)), limit)

\* the summary with `today` taken as the 24 hours before the call
GetSummaryStats_Last24Hours(evs, t) ==
    LET today_start == t - 1440
        today(e) == e.timestamp >= today_start
        violation(e) == e.is_violation
        today_violation(e) == e.is_violation /\ e.timestamp >= today_start
    IN [ total_events       |-> Len(evs),
         today_events       |-> Len(SelectSeq(evs, today)),
         total_violations   |-> Len(SelectSeq(evs, violation)),
         today_violations   |-> Len(SelectSeq(evs, today_violation)),
         violations_by_severity |->
             [ sev \in ViolationSeverity |-> Len(GetViolationsBySeverity(evs, sev)) ],
         unique_users_today |->
             Cardinality({ evs[i].user_id : i \in { j \in 1..Len(evs) : today(evs[j]) } }) ]

\* the summary with `today` starting at the clock of the call itself
GetSummaryStats_SinceCall(evs, t) ==
    LET today_start == t
        today(e) == e.timestamp >= today_start
        violation(e) == e.is_violation
        today_violation(e) == e.is_violation /\ e.timestamp >= today_start
    IN [ total_events       |-> Len(evs),
         today_events       |-> Len(SelectSeq(evs, today)),
         total_violations   |-> Len(SelectSeq(evs, violation)),
         today_violations   |-> Len(SelectSeq(evs, today_violation)),
         violations_by_severity |->
             [ sev \in ViolationSeverity |-> Len(GetViolationsBySeverity(evs, sev)) ],
         unique_users_today |->
             Cardinality({ evs[i].user_id : i \in { j \in 1..Len(evs) : today(evs[j]) } }) ]

\* `t` is the clock read of the call; today_start is local midnight of its date
GetSummaryStats(evs, t) ==
    LET today_start == (t \div 1440) * 1440
        today(e) == e.timestamp >= today_start
        violation(e) == e.is_violation
        today_violation(e) == e.is_violation /\ e.timestamp >= today_start
    IN [ total_events       |-> Len(evs),
         today_events       |-> Len(SelectSeq(evs, today)),
         total_violations   |-> Len(SelectSeq(evs, violation)),
         today_violations   |-> Len(SelectSeq(evs, today_violation)),
         violations_by_severity |->
             [ sev \in ViolationSeverity |-> Len(GetViolationsBySeverity(evs, sev)) ],
         unique_users_today |->
             Cardinality({ evs[i].user_id : i \in { j \in 1..Len(evs) : today(evs[j]) } }) ]

(***************************************************************************)
(* The report consumers: log_event calls interleaved with queries.         *)
(***************************************************************************)
MaxQCalls == 2     \* log_event calls explored next to the queries
MaxQTicks == 2     \* clock advances explored next to the queries

QueryLimits == { -1, 1, 50 }
QueryPatientIds == { "P01", "P02" }

QCalls ==
    { Call(ty, u, IF u = "UDOCTOR" THEN "doctor" ELSE "patient", p, NoDetails) :
        ty \in { "view_patient", "unauthorized_access" }, u \in UserIds, p \in QueryPatientIds }

\* an empty engine at 23:58 of day 0: two one-minute ticks reach midnight
QInit == InitFrom([n |-> 0, k |-> 1, extra |-> 0], 1438)

QLogEvent ==
    /\ calls < MaxQCalls
    /\ \E call \in QCalls :
         LET clk == ClockReads(now, <<0, 0, 0>>)
             st  == RunLogEvent([ events |-> events, event_counter |-> event_counter,
                                  user_access_counts |-> user_access_counts ], call, clk)
         IN /\ events' = st.events
            /\ event_counter' = st.event_counter
            /\ user_access_counts' = st.user_access_counts
            /\ last' = [ op |-> "log_event", call |-> call, clk |-> clk, ret |-> st.ret ]
    /\ calls' = calls + 1
    /\ UNCHANGED <<now, ticks, result, pc, loc, audit_logger, instances, appointments>>

QTick ==
    /\ ticks < MaxQTicks
    /\ now' = now + 1
    /\ ticks' = ticks + 1
    /\ UNCHANGED <<events, event_counter, user_access_counts, last, calls, result, pc, loc, audit_logger, instances, appointments>>

\* a query that sorted the log itself: self._events.sort(key=..., reverse=True)
EventsAfterRead_SortInPlace(evs) == SortedRecentFirst(evs)

\* self._events after a query: sorted(...) and the list comprehensions build new
\* lists and leave the list they read as it is
EventsAfterRead(evs) == evs

Returned(op, args, value) == [ op |-> op, args |-> args, value |-> value ]

QueryAllEvents ==
    /\ \E limit \in QueryLimits :
         result' = Returned("get_all_events", << limit >>, GetAllEvents(events, limit))
    /\ events' = EventsAfterRead(events)
    /\ UNCHANGED <<event_counter, user_access_counts, now, last, calls, ticks, pc, loc, audit_logger, instances, appointments>>

QueryViolations ==
    /\ \E limit \in QueryLimits :
         result' = Returned("get_violations", << limit >>, GetViolations(events, limit))
    /\ events' = EventsAfterRead(events)
    /\ UNCHANGED <<event_counter, user_access_counts, now, last, calls, ticks, pc, loc, audit_logger, instances, appointments>>

QueryViolationsBySeverity ==
    /\ \E severity \in ViolationSeverity :
         result' = Returned("get_violations_by_severity", << severity >>,
                            GetViolationsBySeverity(events, severity))
    /\ events' = EventsAfterRead(events)
    /\ UNCHANGED <<event_counter, user_access_counts, now, last, calls, ticks, pc, loc, audit_logger, instances, appointments>>

QueryUserActivity ==
    /\ \E user_id \in UserIds, limit \in QueryLimits :
         result' = Returned("get_user_activity", << user_id, limit >>,
                            GetUserActivity(events, user_id, limit))
    /\ events' = EventsAfterRead(events)
    /\ UNCHANGED <<event_counter, user_access_counts, now, last, calls, ticks, pc, loc, audit_logger, instances, appointments>>

QueryPatientAccessLog ==
    /\ \E patient_id \in QueryPatientIds, limit \in QueryLimits :
         result' = Returned("get_patient_access_log", << patient_id, limit >>,
                            GetPatientAccessLog(events, patient_id, limit))
    /\ events' = EventsAfterRead(events)
    /\ UNCHANGED <<event_counter, user_access_counts, now, last, calls, ticks, pc, loc, audit_logger, instances, appointments>>

\* The report consumer keeps the summary it was given by its previous query
\* (the clock of that call and the value), to compare two summaries in a row.
QuerySummaryStats ==
    /\ result' = [ op    |-> "get_summary_stats",
                   args  |-> << now >>,
                   value |-> GetSummaryStats(events, now),
                   prev  |-> IF result.op = "get_summary_stats"
                             THEN << result.args[1], result.value >> ELSE << >> ]
    /\ events' = EventsAfterRead(events)
    /\ UNCHANGED <<event_counter, user_access_counts, now, last, calls, ticks, pc, loc, audit_logger, instances, appointments>>

Query ==
    \/ QueryAllEvents
    \/ QueryViolations
    \/ QueryViolationsBySeverity
    \/ QueryUserActivity
    \/ QueryPatientAccessLog
    \/ QuerySummaryStats

QNext == QLogEvent \/ QTick \/ Query

QSpec == QInit /\ [][QNext]_vars

(***************************************************************************)
(* Threaded callers.  HIPAAAuditLogger takes no lock, so the statements of *)
(* log_event calls made from several threads interleave.  One step per     *)
(* access to shared state: `self._event_counter += 1` is a load and a      *)
(* store, the id is formatted from a second read of the counter, each scan *)
(* reads the log, the append writes it, and the tracker's `+= 1` is again  *)
(* a load and a store.                                                     *)
(***************************************************************************)
Threads == 1..NumThreads

ThreadCalls ==
    { Call("view_patient", "UDOCTOR", "doctor", p, NoDetails) : p \in { None, "P01", "P10" } }
    \cup { Call("unauthorized_access", "UP002", "patient", "P01", NoDetails) }

\* an empty engine, or one that served 9 PHI views of 9 patients, at 12:00
ThreadInit ==
    \E sc \in { [n |-> 0, k |-> 1, extra |-> 0], [n |-> 9, k |-> 9, extra |-> 0] } :
        InitFrom(sc, 720)

ThreadFrame == UNCHANGED <<now, last, calls, ticks, result, audit_logger, instances, appointments>>

\* a thread enters log_event
Enter(th) ==
    /\ pc[th] = "idle"
    /\ \E call \in ThreadCalls : loc' = [loc EXCEPT ![th] = [ call |-> call ]]
    /\ pc' = [pc EXCEPT ![th] = "load_counter"]
    /\ UNCHANGED <<events, event_counter, user_access_counts>>
    /\ ThreadFrame

\* line 104, the read of self._event_counter
LoadCounter(th) ==
    /\ pc[th] = "load_counter"
    /\ loc' = [loc EXCEPT ![th] = [ call |-> loc[th].call, counter |-> event_counter ]]
    /\ pc' = [pc EXCEPT ![th] = "store_counter"]
    /\ UNCHANGED <<events, event_counter, user_access_counts>>
    /\ ThreadFrame

\* line 104, the write of self._event_counter
StoreCounter(th) ==
    /\ pc[th] = "store_counter"
    /\ event_counter' = loc[th].counter + 1
    /\ pc' = [pc EXCEPT ![th] = "make_event"]
    /\ UNCHANGED <<events, user_access_counts, loc>>
    /\ ThreadFrame

\* lines 105-119: the id formatted from the counter as it is now, the event stamped
MakeEvent(th) ==
    /\ pc[th] = "make_event"
    /\ loc' = [loc EXCEPT ![th] =
                 [ call  |-> loc[th].call,
                   event |-> AuditEvent(FormatEventId(event_counter), now, loc[th].call) ]]
    /\ pc' = [pc EXCEPT ![th] = "check_1_to_4"]
    /\ UNCHANGED <<events, event_counter, user_access_counts>>
    /\ ThreadFrame

\* lines 141-172: checks 1 to 3 on the event alone, then the scan of check 4
Check1To4(th) ==
    /\ pc[th] = "check_1_to_4"
    /\ IF IsUnauthorized(loc[th].event)
       THEN /\ loc' = [loc EXCEPT ![th].event = Check1(loc[th].event)]
            /\ pc' = [pc EXCEPT ![th] = "append"]
       ELSE /\ loc' = [loc EXCEPT ![th].event =
                         Check4(Check3(Check2(loc[th].event)),
                                CountRecentAccess(events, loc[th].event.user_id,
                                                  RecentWindowMinutes, now))]
            /\ pc' = [pc EXCEPT ![th] = "check_5"]
    /\ UNCHANGED <<events, event_counter, user_access_counts>>
    /\ ThreadFrame

\* lines 174-180: the scan of check 5
ScanCheck5(th) ==
    /\ pc[th] = "check_5"
    /\ loc' = [loc EXCEPT ![th].event =
                 Check5(loc[th].event,
                        CountUniquePatientsAccessed(events, loc[th].event.user_id,
                                                    BulkWindowMinutes, now))]
    /\ pc' = [pc EXCEPT ![th] = "append"]
    /\ UNCHANGED <<events, event_counter, user_access_counts>>
    /\ ThreadFrame

\* line 125, then lines 184-191 of _track_access up to the read of the counter
AppendEvent(th) ==
    /\ pc[th] = "append"
    /\ events' = Append(events, loc[th].event)
    /\ IF ~Truthy(loc[th].call.patient_id)
       THEN /\ pc' = [pc EXCEPT ![th] = "done"]
            /\ UNCHANGED <<user_access_counts, loc>>
       ELSE /\ pc' = [pc EXCEPT ![th] = "store_access_count"]
            /\ user_access_counts' =
                 TrackEnsure(user_access_counts, loc[th].call.user_id, DateOf(now))
            /\ loc' = [loc EXCEPT ![th] =
                         [ call  |-> loc[th].call,
                           event |-> loc[th].event,
                           today |-> DateOf(now),
                           count |-> user_access_counts'[loc[th].call.user_id][DateOf(now)] ]]
    /\ UNCHANGED event_counter
    /\ ThreadFrame

\* line 192, the write of self._user_access_counts[user_id][today]
StoreAccessCount(th) ==
    /\ pc[th] = "store_access_count"
    /\ user_access_counts' =
         DictSet(user_access_counts, loc[th].call.user_id,
                 DictSet(user_access_counts[loc[th].call.user_id],
                         loc[th].today, loc[th].count + 1))
    /\ pc' = [pc EXCEPT ![th] = "done"]
    /\ UNCHANGED <<events, event_counter, loc>>
    /\ ThreadFrame

ThreadNext ==
    \E th \in Threads :
        \/ Enter(th)
        \/ LoadCounter(th)
        \/ StoreCounter(th)
        \/ MakeEvent(th)
        \/ Check1To4(th)
        \/ ScanCheck5(th)
        \/ AppendEvent(th)
        \/ StoreAccessCount(th)

ThreadSpec == ThreadInit /\ [][ThreadNext]_vars

(***************************************************************************)
(* log_event at its boundary.  Python checks no annotation at run time,    *)
(* so a caller can pass any event_type, and any Optional[str] / Optional   *)
(* [Dict] for the optional arguments: None, the empty string, an empty     *)
(* dict.  Two statements of log_event can raise:                           *)
(*   - check 3 calls event.details.get(...), which needs a dict;           *)
(*   - the info log line formats event_type.value, an attribute only the   *)
(*     members of AuditEventType have; it runs after the append and the    *)
(*     tracker update, and only when the event is no violation.            *)
(***************************************************************************)
\* event.details.get raises AttributeError: details is None (line 160)
Check3Raises(event) ==
    /\ ~IsUnauthorized(event)
    /\ event.user_role = "patient"
    /\ Truthy(event.patient_id)
    /\ event.details = NoDetails

\* event_type.value raises AttributeError (line 134)
LogLineRaises(event_type, event) ==
    /\ ~event.is_violation
    /\ event_type \notin AuditEventType

MaxEdgeCalls == 2   \* log_event calls explored at the boundary
MaxEdgeTicks == 1   \* clock advances explored at the boundary

\* the enumeration, and a value outside it
EdgeEventTypes == AuditEventType \cup { "export_records" }

EdgeUsers == { << "UDOCTOR", "doctor" >>, << "UP002", "patient" >> }

EdgePatientIds == { None, "", "P01" }

\* <<resource_id, ip_address, details>>: all absent, and each given
EdgeOptionals ==
    { << None,  None,       NoDetails >>,
      << "R-7", None,       EmptyDetails >>,
      << None,  "10.0.0.7", DetailsWith("P02") >>,
      << "R-7", "10.0.0.7", DetailsWith("P02") >> }

EdgeCalls ==
    { [ event_type    |-> ty,
        user_id       |-> u[1],
        user_email    |-> EmailOf(u[1]),
        user_role     |-> u[2],
        resource_type |-> "patient",
        resource_id   |-> x[1],
        patient_id    |-> p,
        ip_address    |-> x[2],
        details       |-> x[3] ] :
        ty \in EdgeEventTypes, u \in EdgeUsers, p \in EdgePatientIds, x \in EdgeOptionals }

\* an empty engine at 23:59 of day 0
EdgeInit == InitFrom([n |-> 0, k |-> 1, extra |-> 0], 1439)

\* log_event with its exits: an exception of check 3 leaves the counter
\* incremented and nothing else changed; an exception of the log line leaves
\* the whole call done.
EdgeLogEvent ==
    /\ calls < MaxEdgeCalls
    /\ \E call \in EdgeCalls :
         LET clk   == ClockReads(now, <<0, 0, 0>>)
             fresh == AuditEvent(FormatEventId(event_counter + 1), clk[1], call)
             st    == RunLogEvent([ events |-> events, event_counter |-> event_counter,
                                    user_access_counts |-> user_access_counts ], call, clk)
         IN IF Check3Raises(fresh)
            THEN /\ event_counter' = event_counter + 1
                 /\ UNCHANGED <<events, user_access_counts>>
                 /\ last' = [ op |-> "log_event", call |-> call, clk |-> clk,
                              ret |-> None, raised |-> TRUE ]
            ELSE /\ events' = st.events
                 /\ event_counter' = st.event_counter
                 /\ user_access_counts' = st.user_access_counts
                 /\ last' = [ op |-> "log_event", call |-> call, clk |-> clk,
                              ret |-> IF LogLineRaises(call.event_type, st.ret)
                                      THEN None ELSE st.ret,
                              raised |-> LogLineRaises(call.event_type, st.ret) ]
    /\ calls' = calls + 1
    /\ UNCHANGED <<now, ticks, result, pc, loc, audit_logger, instances, appointments>>

EdgeTick ==
    /\ ticks < MaxEdgeTicks
    /\ now' = now + 1
    /\ ticks' = ticks + 1
    /\ UNCHANGED <<events, event_counter, user_access_counts, last, calls, result, pc, loc, audit_logger, instances, appointments>>

EdgeNext == EdgeLogEvent \/ EdgeTick

EdgeSpec == EdgeInit /\ [][EdgeNext]_vars

(***************************************************************************)
(* The HTTP layer: routers/ehr.py, routers/appointments.py and             *)
(* routers/compliance.py behind the dependencies of security.py.  The      *)
(* handlers are `async def` without an await, so requests run one at a     *)
(* time and every handler is one step.  A request carries a valid token of *)
(* a seed user; `result` holds the response.                               *)
(***************************************************************************)
MaxRouteCalls == 2   \* requests that write to the audit log or to the appointment store
MaxRouteTicks == 1   \* clock advances between requests

\* data.users._seed_users: the owner, the doctor and one patient account
RouteUsers ==
    { [ id |-> "UOWNER", email |-> "owner@example.com", role |-> "owner", patient_id |-> None ],
      [ id |-> "UDOCTOR", email |-> "doctor@example.com", role |-> "doctor", patient_id |-> None ],
      [ id |-> "UP002", email |-> "liam.parent@example.com", role |-> "patient",
        patient_id |-> "P002" ] }

\* data.sample_patients.SAMPLE_PATIENTS, with the fields search_patients reads in lower case
SAMPLE_PATIENTS ==
    << [ id |-> "P001", first_name |-> "emma", last_name |-> "johnson", mrn |-> "mrn-2024-001" ],
       [ id |-> "P002", first_name |-> "liam", last_name |-> "martinez", mrn |-> "mrn-2024-002" ],
       [ id |-> "P003", first_name |-> "sophia", last_name |-> "chen", mrn |-> "mrn-2024-003" ],
       [ id |-> "P004", first_name |-> "noah", last_name |-> "williams", mrn |-> "mrn-2024-004" ],
       [ id |-> "P005", first_name |-> "olivia", last_name |-> "brown", mrn |-> "mrn-2024-005" ] >>

\* every sample patient has a health record
SAMPLE_HEALTH_RECORDS == { SAMPLE_PATIENTS[i].id : i \in 1..Len(SAMPLE_PATIENTS) }

\* A lookup answers with a sequence: empty for None, the one object found otherwise.
get_patient_by_id(patient_id) ==
    LET keep(p) == p.id = patient_id
    IN LET found == SelectSeq(SAMPLE_PATIENTS, keep)
       IN IF found = << >> THEN << >> ELSE << found[1] >>

get_health_record(patient_id) ==
    IF patient_id \in SAMPLE_HEALTH_RECORDS THEN << patient_id >> ELSE << >>

\* the queries explored are whole lower-case names, so `query in field` is equality
search_patients(query) ==
    LET keep(p) == query \in { p.first_name, p.last_name, p.mrn }
    IN SelectSeq(SAMPLE_PATIENTS, keep)

\* require_roles(*allowed): the role string is among the allowed ones
RequireRoles_AnyAuthenticated(allowed, role) == TRUE

RequireRoles(allowed, role) == role \in allowed

ClinicalRoles == { "doctor", "owner" }
OwnerOnly == { "owner" }

RoutePatientIds == { "P001", "P404" }
RouteQueries == { "emma", "zzz" }
RouteLimits == { 1, 50 }
RouteSeverities == { None, "", "HIGH", "severe" }
RouteAppointmentIds == { "A001", "ANEW", "A404" }
NewAppointmentIds == { "ANEW" }
RouteDates == { 2000 }
MemoryOutcomes == { "unavailable", "exception" }

\* the body of a response: the detail of an HTTPException, or the data returned
HttpError(detail) == [ detail |-> detail ]
Body(data) == [ body |-> data ]

Response(op, user_id, args, status, value) ==
    [ op |-> op, user |-> user_id, args |-> args, status |-> status, value |-> value ]

CurrentEngine ==
    [ events |-> events, event_counter |-> event_counter,
      user_access_counts |-> user_access_counts ]

PhiCall(event_type, user_id, user_email, user_role, resource_type, resource_id, patient_id, details) ==
    [ event_type    |-> event_type,
      user_id       |-> user_id,
      user_email    |-> user_email,
      user_role     |-> user_role,
      resource_type |-> resource_type,
      resource_id   |-> resource_id,
      patient_id    |-> patient_id,
      ip_address    |-> None,
      details       |-> details ]

\* log_phi_access: get_audit_logger().log_event(...) on the one engine of the process
log_phi_access(st, call, t) == RunLogEvent(st, call, << t, t, t, t >>)

\* the response of a handler that wrote nothing
Answer(op, user_id, args, status, value) ==
    /\ result' = Response(op, user_id, args, status, value)
    /\ UNCHANGED <<events, event_counter, user_access_counts, last, calls>>

\* HTTPException(403) raised by the dependency before the handler body runs
Forbidden(op, user_id, args) ==
    Answer(op, user_id, args, 403, HttpError("Forbidden: insufficient role"))

\* the response of a handler that called log_phi_access once before answering
AnswerAfterLog(op, user_id, args, call, status, value) ==
    /\ calls < MaxRouteCalls
    /\ LET st == log_phi_access(CurrentEngine, call, now)
       IN /\ events' = st.events
          /\ event_counter' = st.event_counter
          /\ user_access_counts' = st.user_access_counts
          /\ last' = [ op |-> "log_event", call |-> call, clk |-> << now, now, now, now >>,
                       ret |-> st.ret ]
    /\ calls' = calls + 1
    /\ result' = Response(op, user_id, args, status, value)

RouteFrame == UNCHANGED <<now, ticks, pc, loc, audit_logger, instances>>

PatientIdsOf(patients) == [ i \in 1..Len(patients) |-> patients[i].id ]

(***************************************************************************)
(* routers/ehr.py                                                          *)
(***************************************************************************)
ListPatients ==
    /\ \E user \in RouteUsers :
         IF ~RequireRoles(ClinicalRoles, user.role)
         THEN Forbidden("list_patients", user.id, << >>)
         ELSE AnswerAfterLog("list_patients", user.id, << >>,
                             PhiCall("view_patient", user.id, user.email, user.role,
                                     "patient_list", None, None,
                                     [ k \in {"action"} |-> "list_all_patients" ]),
                             200, Body(PatientIdsOf(SAMPLE_PATIENTS)))
    /\ RouteFrame /\ UNCHANGED appointments

SearchPatients ==
    /\ \E user \in RouteUsers, q \in RouteQueries :
         IF ~RequireRoles(ClinicalRoles, user.role)
         THEN Forbidden("search_patients", user.id, << q >>)
         ELSE IF search_patients(q) = << >>
         THEN Answer("search_patients", user.id, << q >>, 404, HttpError("No patients found"))
         ELSE Answer("search_patients", user.id, << q >>, 200,
                     Body(PatientIdsOf(search_patients(q))))
    /\ RouteFrame /\ UNCHANGED appointments

GetPatient ==
    /\ \E user \in RouteUsers, patient_id \in RoutePatientIds :
         IF ~RequireRoles(ClinicalRoles, user.role)
         THEN Forbidden("get_patient", user.id, << patient_id >>)
         ELSE IF get_patient_by_id(patient_id) = << >>
         THEN Answer("get_patient", user.id, << patient_id >>, 404,
                     HttpError("Patient not found"))
         ELSE AnswerAfterLog("get_patient", user.id, << patient_id >>,
                             PhiCall("view_patient", user.id, user.email, user.role,
                                     "patient", patient_id, patient_id, NoDetails),
                             200, Body(get_patient_by_id(patient_id)[1].id))
    /\ RouteFrame /\ UNCHANGED appointments

GetPatientRecords ==
    /\ \E user \in RouteUsers, patient_id \in RoutePatientIds :
         IF ~RequireRoles(ClinicalRoles, user.role)
         THEN Forbidden("get_patient_records", user.id, << patient_id >>)
         ELSE IF get_patient_by_id(patient_id) = << >>
         THEN Answer("get_patient_records", user.id, << patient_id >>, 404,
                     HttpError("Patient not found"))
         ELSE IF get_health_record(patient_id) = << >>
         THEN Answer("get_patient_records", user.id, << patient_id >>, 404,
                     HttpError("Health records not found"))
         ELSE AnswerAfterLog("get_patient_records", user.id, << patient_id >>,
                             PhiCall("view_health_record", user.id, user.email, user.role,
                                     "health_record", patient_id, patient_id, NoDetails),
                             200, Body(get_health_record(patient_id)[1]))
    /\ RouteFrame /\ UNCHANGED appointments

\* the event is logged before the memory manager is consulted, whatever it answers
GetPatientChatHistory ==
    /\ \E user \in RouteUsers, patient_id \in RoutePatientIds, memory \in MemoryOutcomes :
         IF ~RequireRoles(ClinicalRoles, user.role)
         THEN Forbidden("get_patient_chat_history", user.id, << patient_id >>)
         ELSE IF get_patient_by_id(patient_id) = << >>
         THEN Answer("get_patient_chat_history", user.id, << patient_id >>, 404,
                     HttpError("Patient not found"))
         ELSE AnswerAfterLog("get_patient_chat_history", user.id, << patient_id >>,
                             PhiCall("view_chat_history", user.id, user.email, user.role,
                                     "chat_history", patient_id, patient_id, NoDetails),
                             IF memory = "exception" THEN 500 ELSE 200,
                             IF memory = "exception"
                             THEN HttpError("Failed to retrieve chat history")
                             ELSE Body(memory))
    /\ RouteFrame /\ UNCHANGED appointments

(***************************************************************************)
(* routers/appointments.py over data/sample_appointments.py.  The routes   *)
(* depend on get_current_user only (get_appointment on nothing), and none  *)
(* of them imports the audit module.                                       *)
(***************************************************************************)
get_appointment_by_id(db, appointment_id) ==
    LET keep(a) == a.id = appointment_id
        found == SelectSeq(db, keep)
    IN IF found = << >> THEN << >> ELSE << found[1] >>

\* appointments_db[appointment.id] = appointment, for an id that is not yet a key
create_appointment(db, appointment) == Append(db, appointment)

\* the stored appointment with every given (non-None) field replaced, in place
update_appointment(db, appointment_id, updates) ==
    [ i \in 1..Len(db) |->
        IF db[i].id = appointment_id
        THEN [ f \in DOMAIN db[i] |->
                 IF f \in DOMAIN updates /\ updates[f] # None THEN updates[f] ELSE db[i][f] ]
        ELSE db[i] ]

RECURSIVE InsertByDate(_, _, _)
InsertByDate(sorted, a, i) ==
    IF i > Len(sorted) THEN Append(sorted, a)
    ELSE IF a.date < sorted[i].date
         THEN SubSeq(sorted, 1, i - 1) \o << a >> \o SubSeq(sorted, i, Len(sorted))
         ELSE InsertByDate(sorted, a, i + 1)

\* appointments.sort(key=date): ascending and stable
RECURSIVE SortedByDate(_, _, _)
SortedByDate(lst, i, acc) ==
    IF i > Len(lst) THEN acc ELSE SortedByDate(lst, i + 1, InsertByDate(acc, lst[i], 1))

Finalized(a, t) == a.date <= t \/ a.status \in { "completed", "cancelled" }

NoUpdates == [ status |-> None, notes |-> None ]
RouteUpdates == { NoUpdates, [ status |-> None, notes |-> "call first" ] }

\* the response of a handler that wrote to the appointment store
AnswerAfterStore(op, user_id, args, db, status, value) ==
    /\ calls < MaxRouteCalls
    /\ appointments' = db
    /\ calls' = calls + 1
    /\ result' = Response(op, user_id, args, status, value)
    /\ UNCHANGED <<events, event_counter, user_access_counts, last>>

ListAppointments ==
    /\ \E user \in RouteUsers, patient_id \in { None, "P001" } :
         LET mine(a) == a.patient_id = user.patient_id
             asked(a) == a.patient_id = patient_id
             shown == IF user.role = "patient" THEN SelectSeq(appointments, mine)
                      ELSE IF Truthy(patient_id) THEN SelectSeq(appointments, asked)
                      ELSE appointments
         IN Answer("list_appointments", user.id, << patient_id >>, 200,
                   Body(SortedByDate(shown, 1, << >>)))
    /\ RouteFrame /\ UNCHANGED appointments

GetAppointment ==
    /\ \E appointment_id \in RouteAppointmentIds :
         IF get_appointment_by_id(appointments, appointment_id) = << >>
         THEN Answer("get_appointment", None, << appointment_id >>, 404,
                     HttpError("Appointment not found"))
         ELSE Answer("get_appointment", None, << appointment_id >>, 200,
                     Body(get_appointment_by_id(appointments, appointment_id)[1]))
    /\ RouteFrame /\ UNCHANGED appointments

CreateNewAppointment ==
    /\ \E user \in RouteUsers, patient_id \in { "P001", "P002" }, date \in RouteDates,
          new_id \in NewAppointmentIds :
         /\ get_appointment_by_id(appointments, new_id) = << >>
         /\ IF user.role = "patient" /\ user.patient_id = None
            THEN Answer("create_new_appointment", user.id, << patient_id, date >>, 400,
                        HttpError("Patient account not linked to a patient_id"))
                 /\ UNCHANGED appointments
            ELSE IF user.role = "patient" /\ Truthy(patient_id) /\ patient_id # user.patient_id
            THEN Answer("create_new_appointment", user.id, << patient_id, date >>, 403,
                        HttpError("Patients can only create appointments for themselves"))
                 /\ UNCHANGED appointments
            ELSE LET created == [ id |-> new_id,
                                  patient_id |-> IF user.role = "patient" THEN user.patient_id
                                                 ELSE patient_id,
                                  date |-> date, status |-> "scheduled", notes |-> None ]
                 IN AnswerAfterStore("create_new_appointment", user.id, << patient_id, date >>,
                                     create_appointment(appointments, created), 201,
                                     Body(created))
    /\ RouteFrame

UpdateAppointmentEndpoint ==
    /\ \E user \in RouteUsers, appointment_id \in RouteAppointmentIds, updates \in RouteUpdates :
         LET found == get_appointment_by_id(appointments, appointment_id)
             current == found[1]
             args == << appointment_id, updates >>
             updated == update_appointment(appointments, appointment_id, updates)
         IN IF found = << >>
            THEN Answer("update_appointment_endpoint", user.id, args, 404,
                        HttpError("Appointment not found"))
                 /\ UNCHANGED appointments
            ELSE IF user.role = "patient" /\ current.patient_id # user.patient_id
            THEN Answer("update_appointment_endpoint", user.id, args, 403,
                        HttpError("Cannot update another patient's appointment"))
                 /\ UNCHANGED appointments
            ELSE IF user.role = "patient" /\ Finalized(current, now)
            THEN Answer("update_appointment_endpoint", user.id, args, 400,
                        HttpError("Cannot update past or finalized appointments"))
                 /\ UNCHANGED appointments
            ELSE IF updates = NoUpdates
            THEN Answer("update_appointment_endpoint", user.id, args, 400,
                        HttpError("No updates provided"))
                 /\ UNCHANGED appointments
            ELSE AnswerAfterStore("update_appointment_endpoint", user.id, args, updated, 200,
                                  Body(get_appointment_by_id(updated, appointment_id)[1]))
    /\ RouteFrame

CancelAppointment ==
    /\ \E user \in RouteUsers, appointment_id \in RouteAppointmentIds :
         LET found == get_appointment_by_id(appointments, appointment_id)
             current == found[1]
             args == << appointment_id >>
         IN IF found = << >>
            THEN Answer("cancel_appointment", user.id, args, 404,
                        HttpError("Appointment not found"))
                 /\ UNCHANGED appointments
            ELSE IF user.role = "patient" /\ current.patient_id # user.patient_id
            THEN Answer("cancel_appointment", user.id, args, 403,
                        HttpError("Cannot cancel another patient's appointment"))
                 /\ UNCHANGED appointments
            ELSE IF user.role = "patient" /\ Finalized(current, now)
            THEN Answer("cancel_appointment", user.id, args, 400,
                        HttpError("Cannot cancel past or finalized appointments"))
                 /\ UNCHANGED appointments
            ELSE AnswerAfterStore("cancel_appointment", user.id, args,
                                  update_appointment(appointments, appointment_id,
                                                     [ status |-> "cancelled" ]),
                                  204, Body(None))
    /\ RouteFrame

(***************************************************************************)
(* routers/compliance.py: every route depends on require_roles(Role.owner) *)
(* and reads the engine through get_audit_logger().                        *)
(***************************************************************************)
\* datetime.isoformat() of a whole-minute clock value: date, hour, minute
IsoFormat(t) == << t \div 1440, (t \div 60) % 24, t % 60 >>

AuditLogJson(evs) ==
    [ i \in 1..Len(evs) |->
        [ id |-> evs[i].id, timestamp |-> IsoFormat(evs[i].timestamp),
          event_type |-> evs[i].event_type, user_email |-> evs[i].user_email,
          user_role |-> evs[i].user_role, resource_type |-> evs[i].resource_type,
          resource_id |-> evs[i].resource_id, patient_id |-> evs[i].patient_id,
          is_violation |-> evs[i].is_violation,
          violation_severity |-> evs[i].violation_severity,
          violation_reason |-> evs[i].violation_reason, details |-> evs[i].details ] ]

ViolationsJson(evs) ==
    [ i \in 1..Len(evs) |->
        [ id |-> evs[i].id, timestamp |-> IsoFormat(evs[i].timestamp),
          event_type |-> evs[i].event_type, user_email |-> evs[i].user_email,
          user_role |-> evs[i].user_role, resource_type |-> evs[i].resource_type,
          resource_id |-> evs[i].resource_id, patient_id |-> evs[i].patient_id,
          severity |-> evs[i].violation_severity, reason |-> evs[i].violation_reason ] ]

AccessLogJson(evs) ==
    [ i \in 1..Len(evs) |->
        [ id |-> evs[i].id, timestamp |-> IsoFormat(evs[i].timestamp),
          event_type |-> evs[i].event_type, user_email |-> evs[i].user_email,
          user_role |-> evs[i].user_role, is_violation |-> evs[i].is_violation,
          violation_reason |-> evs[i].violation_reason ] ]

ActivityJson(evs) ==
    [ i \in 1..Len(evs) |->
        [ id |-> evs[i].id, timestamp |-> IsoFormat(evs[i].timestamp),
          event_type |-> evs[i].event_type, resource_type |-> evs[i].resource_type,
          resource_id |-> evs[i].resource_id, patient_id |-> evs[i].patient_id,
          is_violation |-> evs[i].is_violation ] ]

\* str.lower() on the severity filters explored
Lower(s) == IF s = "HIGH" THEN "high" ELSE s

\* ViolationSeverity(value) answering with its first member for an unknown value
ParseSeverity_FirstMember(value) ==
    IF value \in ViolationSeverity THEN << value >> ELSE << "low" >>

\* ViolationSeverity(value): the member of that value, or << >> for ValueError
ParseSeverity(value) == IF value \in ViolationSeverity THEN << value >> ELSE << >>

\* the severity path cut to the `limit` most recent violations
ViolationsOfSeverity_MostRecent(evs, sev, limit) ==
    Slice(SortedRecentFirst(GetViolationsBySeverity(evs, sev)), limit)

\* audit_logger.get_violations_by_severity(sev)[:limit]
ViolationsOfSeverity(evs, sev, limit) == Slice(GetViolationsBySeverity(evs, sev), limit)

RouteAuditLog ==
    /\ \E user \in RouteUsers, limit \in { 100 } :
         IF ~RequireRoles(OwnerOnly, user.role)
         THEN Forbidden("get_audit_log", user.id, << limit >>)
         ELSE LET evs == GetAllEvents(events, limit)
              IN Answer("get_audit_log", user.id, << limit >>, 200,
                        [ events |-> AuditLogJson(evs), total |-> Len(evs) ])
    /\ RouteFrame /\ UNCHANGED appointments

RouteViolations ==
    /\ \E user \in RouteUsers, severity \in RouteSeverities, limit \in RouteLimits :
         LET args == << severity, limit >>
             sev == ParseSeverity(Lower(severity))
             violations == IF Truthy(severity)
                           THEN ViolationsOfSeverity(events, sev[1], limit)
                           ELSE GetViolations(events, limit)
         IN IF ~RequireRoles(OwnerOnly, user.role)
            THEN Forbidden("get_violations", user.id, args)
            ELSE IF Truthy(severity) /\ sev = << >>
            THEN Answer("get_violations", user.id, args, 400, HttpError("Invalid severity"))
            ELSE Answer("get_violations", user.id, args, 200,
                        [ violations |-> ViolationsJson(violations),
                          total |-> Len(violations) ])
    /\ RouteFrame /\ UNCHANGED appointments

RouteSummary ==
    /\ \E user \in RouteUsers :
         IF ~RequireRoles(OwnerOnly, user.role)
         THEN Forbidden("get_compliance_summary", user.id, << >>)
         ELSE LET stats == GetSummaryStats(events, now)
              IN Answer("get_compliance_summary", user.id, << >>, 200,
                        [ summary |-> stats,
                          compliance_status |-> IF stats.total_violations = 0
                                                THEN "compliant" ELSE "violations_detected",
                          last_updated |-> IsoFormat(now) ])
    /\ RouteFrame /\ UNCHANGED appointments

RoutePatientAccessLog ==
    /\ \E user \in RouteUsers, patient_id \in RoutePatientIds, limit \in { 50 } :
         IF ~RequireRoles(OwnerOnly, user.role)
         THEN Forbidden("get_patient_access_log", user.id, << patient_id, limit >>)
         ELSE LET evs == GetPatientAccessLog(events, patient_id, limit)
              IN Answer("get_patient_access_log", user.id, << patient_id, limit >>, 200,
                        [ patient_id |-> patient_id, access_events |-> AccessLogJson(evs),
                          total |-> Len(evs) ])
    /\ RouteFrame /\ UNCHANGED appointments

RouteUserActivity ==
    /\ \E user \in RouteUsers, user_id \in { "UDOCTOR" }, limit \in { 50 } :
         IF ~RequireRoles(OwnerOnly, user.role)
         THEN Forbidden("get_user_activity", user.id, << user_id, limit >>)
         ELSE LET evs == GetUserActivity(events, user_id, limit)
              IN Answer("get_user_activity", user.id, << user_id, limit >>, 200,
                        [ user_id |-> user_id, activity |-> ActivityJson(evs),
                          total |-> Len(evs) ])
    /\ RouteFrame /\ UNCHANGED appointments

\* the five log_phi_access calls of generate_sample_events, in order
SampleCalls ==
    << PhiCall("view_patient", "doctor-1", "doctor@example.com", "doctor", "patient",
               "P001", "P001", NoDetails),
       PhiCall("view_health_record", "doctor-1", "doctor@example.com", "doctor",
               "health_record", "HR001", "P001", NoDetails),
       PhiCall("view_patient", "doctor-1", "doctor@example.com", "doctor", "patient",
               "P002", "P002", NoDetails),
       PhiCall("unauthorized_access", "unknown", "hacker@malicious.com", "unknown", "patient",
               "P001", "P001", [ k \in {"reason"} |-> "Invalid authentication token" ]),
       PhiCall("view_patient", "patient-2", "other.patient@example.com", "patient", "patient",
               "P001", "P001", DetailsWith("P002")) >>

RECURSIVE LogAll(_, _, _, _)
LogAll(st, cs, i, t) ==
    IF i > Len(cs) THEN st ELSE LogAll(log_phi_access(st, cs[i], t), cs, i + 1, t)

RouteGenerateSampleEvents ==
    /\ \E user \in RouteUsers :
         IF ~RequireRoles(OwnerOnly, user.role)
         THEN Forbidden("generate_sample_events", user.id, << >>)
         ELSE /\ calls < MaxRouteCalls
              /\ LET st == LogAll(CurrentEngine, SampleCalls, 1, now)
                 IN /\ events' = st.events
                    /\ event_counter' = st.event_counter
                    /\ user_access_counts' = st.user_access_counts
                    /\ last' = [ op |-> "log_event", call |-> SampleCalls[Len(SampleCalls)],
                                 clk |-> << now, now, now, now >>,
                                 ret |-> st.events[Len(st.events)] ]
                    /\ result' = Response("generate_sample_events", user.id, << >>, 200,
                                          [ message |-> "Sample events generated",
                                            stats |-> GetSummaryStats(st.events, now) ])
              /\ calls' = calls + 1
    /\ RouteFrame /\ UNCHANGED appointments

RouteTick ==
    /\ ticks < MaxRouteTicks
    /\ now' = now + 1
    /\ ticks' = ticks + 1
    /\ UNCHANGED <<events, event_counter, user_access_counts, last, calls, result, pc, loc,
                   audit_logger, instances, appointments>>

RouteInit == InitFrom([n |-> 0, k |-> 1, extra |-> 0], 1438)

RouteNext ==
    \/ ListPatients \/ SearchPatients \/ GetPatient \/ GetPatientRecords
    \/ GetPatientChatHistory
    \/ ListAppointments \/ GetAppointment \/ CreateNewAppointment
    \/ UpdateAppointmentEndpoint \/ CancelAppointment
    \/ RouteAuditLog \/ RouteViolations \/ RouteSummary \/ RoutePatientAccessLog
    \/ RouteUserActivity \/ RouteGenerateSampleEvents
    \/ RouteTick

RouteSpec == RouteInit /\ [][RouteNext]_vars

(***************************************************************************)
(* get_audit_logger and log_phi_access called from several threads.  The   *)
(* global is tested, assigned and read again in three separate steps, and  *)
(* nothing holds a lock.  Every HIPAAAuditLogger() built is kept in        *)
(* `instances`; a call of log_event or of a query on an instance is one    *)
(* step here (the steps inside log_event are those of ThreadSpec).         *)
(***************************************************************************)
MaxSingletonCalls == 3   \* calls of get_audit_logger explored, over all threads

SingletonCalls ==
    { Call("view_patient", "UDOCTOR", "doctor", p, NoDetails) : p \in { "P01", "P10" } }

NewInstance == [ events |-> << >>, event_counter |-> 0, user_access_counts |-> << >> ]

SingletonFrame == UNCHANGED <<events, event_counter, user_access_counts, now, ticks,
                             appointments>>

\* a thread calls log_phi_access(...) or a query through get_audit_logger()
EnterGetAuditLogger(th) ==
    /\ pc[th] = "idle"
    /\ calls < MaxSingletonCalls
    /\ \/ \E call \in SingletonCalls :
            loc' = [loc EXCEPT ![th] = [ op |-> "log_phi_access", call |-> call ]]
       \/ loc' = [loc EXCEPT ![th] = [ op |-> "get_all_events" ]]
    /\ pc' = [pc EXCEPT ![th] = "test_global"]
    /\ calls' = calls + 1
    /\ UNCHANGED <<last, result, audit_logger, instances>>
    /\ SingletonFrame

\* if _audit_logger is None:
TestGlobal(th) ==
    /\ pc[th] = "test_global"
    /\ pc' = [pc EXCEPT ![th] = IF audit_logger = NoInstance THEN "create_instance"
                                ELSE "return_global"]
    /\ UNCHANGED <<last, calls, result, loc, audit_logger, instances>>
    /\ SingletonFrame

\* _audit_logger = HIPAAAuditLogger()
CreateInstance(th) ==
    /\ pc[th] = "create_instance"
    /\ instances' = Append(instances, NewInstance)
    /\ audit_logger' = Len(instances) + 1
    /\ pc' = [pc EXCEPT ![th] = "return_global"]
    /\ UNCHANGED <<last, calls, result, loc>>
    /\ SingletonFrame

\* return _audit_logger: the global is read again
ReturnGlobal(th) ==
    /\ pc[th] = "return_global"
    /\ loc' = [loc EXCEPT ![th] = [ f \in DOMAIN loc[th] \cup {"engine"} |->
                                      IF f = "engine" THEN audit_logger ELSE loc[th][f] ]]
    /\ pc' = [pc EXCEPT ![th] = "use_engine"]
    /\ UNCHANGED <<last, calls, result, audit_logger, instances>>
    /\ SingletonFrame

\* get_audit_logger().log_event(...) on the instance the call returned
LogThroughSingleton(th) ==
    /\ pc[th] = "use_engine"
    /\ loc[th].op = "log_phi_access"
    /\ LET clk == << now, now, now, now >>
           st == RunLogEvent(instances[loc[th].engine], loc[th].call, clk)
       IN /\ instances' = [instances EXCEPT ![loc[th].engine] =
                              [ events |-> st.events, event_counter |-> st.event_counter,
                                user_access_counts |-> st.user_access_counts ]]
          /\ last' = [ op |-> "log_event", call |-> loc[th].call, clk |-> clk, ret |-> st.ret ]
    /\ pc' = [pc EXCEPT ![th] = "idle"]
    /\ loc' = [loc EXCEPT ![th] = << >>]
    /\ UNCHANGED <<calls, result, audit_logger>>
    /\ SingletonFrame

\* get_audit_logger().get_all_events(limit=100) on the instance the call returned
QueryThroughSingleton(th) ==
    /\ pc[th] = "use_engine"
    /\ loc[th].op = "get_all_events"
    /\ result' = Returned("get_all_events", << 100 >>,
                          GetAllEvents(instances[loc[th].engine].events, 100))
    /\ pc' = [pc EXCEPT ![th] = "idle"]
    /\ loc' = [loc EXCEPT ![th] = << >>]
    /\ UNCHANGED <<last, calls, audit_logger, instances>>
    /\ SingletonFrame

SingletonInit == InitFrom([n |-> 0, k |-> 1, extra |-> 0], 720)

SingletonNext ==
    \E th \in Threads :
        \/ EnterGetAuditLogger(th)
        \/ TestGlobal(th)
        \/ CreateInstance(th)
        \/ ReturnGlobal(th)
        \/ LogThroughSingleton(th)
        \/ QueryThroughSingleton(th)

SingletonSpec == SingletonInit /\ [][SingletonNext]_vars

(***************************************************************************)
(* Vocabulary of the properties: the last call, the log it ran against,    *)
(* the event it recorded, and the five rules as the specification words    *)
(* them.                                                                   *)
(***************************************************************************)
Logged == last.op = "log_event"

Recorded == events[Len(events)]

PriorLog == SubSeq(events, 1, Len(events) - 1)

\* the prior events of `user_id` that carry a patient id, stamped after t - window
PhiWithin(user_id, t, window) ==
    { i \in 1..Len(PriorLog) :
        /\ PriorLog[i].user_id = user_id
        /\ PriorLog[i].patient_id # None
        /\ PriorLog[i].timestamp > t - window }

Rule4Count == Cardinality(PhiWithin(last.call.user_id, last.clk[2], 60))

Rule5Count ==
    Cardinality({ PriorLog[i].patient_id : i \in PhiWithin(last.call.user_id, last.clk[3], 10) })

StampHour == (last.clk[1] \div 60) % 24

Matches1 == last.call.event_type = "unauthorized_access"

Matches2 ==
    /\ (StampHour < 7 \/ StampHour >= 19)
    /\ last.call.event_type \in {"view_patient", "view_health_record"}

UserPatientIdPresent == "user_patient_id" \in DOMAIN last.call.details

Matches3 ==
    /\ last.call.user_role = "patient"
    /\ last.call.patient_id # None
    /\ UserPatientIdPresent
    /\ last.call.details["user_patient_id"] # ""
    /\ last.call.details["user_patient_id"] # last.call.patient_id

Matches4 == Rule4Count > 20

Matches5 == Rule5Count >= 10

IsRule1Output(e) ==
    /\ e.is_violation /\ e.violation_severity = "high"
    /\ e.violation_reason = << "Attempted unauthorized access to PHI" >>
    /\ e.event_type = "unauthorized_access"

IsRule2Output(e) ==
    /\ e.is_violation /\ e.violation_severity = "low"
    /\ e.violation_reason = << "After-hours PHI access at", StampHour, last.clk[1] % 60 >>
    /\ e.event_type = "after_hours_access"

IsRule3Output(e) ==
    /\ e.is_violation /\ e.violation_severity = "critical"
    /\ e.violation_reason = << "Patient attempted to access another patient's records" >>
    /\ e.event_type = (IF Matches2 THEN "after_hours_access" ELSE last.call.event_type)

IsRule4Output(e) ==
    /\ e.is_violation /\ e.violation_severity = "medium"
    /\ e.violation_reason = << "Excessive PHI queries: accesses in last hour", Rule4Count >>
    /\ e.event_type = "excessive_queries"

IsRule5Output(e) ==
    /\ e.is_violation /\ e.violation_severity = "high"
    /\ e.violation_reason = << "Bulk PHI access: different patients in 10 minutes", Rule5Count >>
    /\ e.event_type = "bulk_data_access"

IsUnflagged(e) ==
    /\ ~e.is_violation /\ e.violation_severity = None /\ e.violation_reason = << >>
    /\ e.event_type = last.call.event_type

\* the output of the last rule, in the order 1 to 5, among those that matched
IsLastMatchOutput(e) ==
    IF Matches5 THEN IsRule5Output(e)
    ELSE IF Matches4 THEN IsRule4Output(e)
    ELSE IF Matches3 THEN IsRule3Output(e)
    ELSE IF Matches2 THEN IsRule2Output(e)
    ELSE IF Matches1 THEN IsRule1Output(e)
    ELSE IsUnflagged(e)

C4_AfterHours ==
    (Logged /\ ~Matches1 /\ ~Matches3 /\ ~Matches4 /\ ~Matches5) =>
        IF Matches2 THEN IsRule2Output(Recorded) ELSE IsUnflagged(Recorded)

\* a health-record view stamped at 19:00 sharp
C4_Witness ==
    /\ Logged /\ ~Matches3 /\ ~Matches4 /\ ~Matches5
    /\ last.call.event_type = "view_health_record"
    /\ last.clk[1] = 19 * 60
    /\ Recorded.event_type = "after_hours_access"
    /\ Recorded.violation_severity = "low"

C7_AnnotationConsistent ==
    \A i \in 1..Len(events) :
        /\ events[i].is_violation <=>
              (events[i].violation_severity # None /\ events[i].violation_reason # << >>)
        /\ ~events[i].is_violation <=>
              (events[i].violation_severity = None /\ events[i].violation_reason = << >>)
        /\ events[i].violation_severity \in ViolationSeverity \cup {None}

C7_Witness ==
    /\ Logged
    /\ \E i, j \in 1..Len(events) : events[i].is_violation /\ ~events[j].is_violation
    /\ Recorded.violation_severity = "critical"

(***************************************************************************)
(* C8: no two events of the log carry the same id, also when log_event     *)
(* calls of several threads interleave between the increment of the        *)
(* counter and the read that formats the id.                               *)
(***************************************************************************)
C8_UniqueIds ==
    \A i, j \in 1..Len(events) : i # j => events[i].id # events[j].id

(***************************************************************************)
(* C9: the log is append-only.  Every step leaves the previous log a       *)
(* prefix of the new one; a log_event step adds exactly one entry at the   *)
(* end and every other step (a query, the clock) leaves the log as it is.  *)
(***************************************************************************)
C9_AppendOnly ==
    [][ /\ Len(events') >= Len(events)
        /\ SubSeq(events', 1, Len(events)) = events
        /\ Len(events') = Len(events) + (calls' - calls)
        /\ calls' - calls \in {0, 1} ]_vars

\* two events logged, then a query that returned them in another order than the log's
C9_Witness ==
    /\ Len(events) = 2
    /\ events[1].event_type = "after_hours_access"
    /\ events[2].timestamp > events[1].timestamp
    /\ result.op = "get_all_events"
    /\ result.value = << events[2], events[1] >>

(***************************************************************************)
(* C10: interleaved log_event calls leave the state some serial order of   *)
(* them would: once every call has returned, no tracker increment is       *)
(* lost (the per-day counters of a user add up to the user's events with   *)
(* a patient id), and every event other than unauthorized-access carries   *)
(* the bulk-access verdict iff the events logged before it hold at least   *)
(* 10 distinct patients of its user in its window.                         *)
(***************************************************************************)
RECURSIVE SumOver(_, _)
SumOver(f, keys) ==
    IF keys = {} THEN 0
    ELSE LET k == CHOOSE x \in keys : TRUE IN f[k] + SumOver(f, keys \ {k})

TrackedTotal(user_id) ==
    IF user_id \in DOMAIN user_access_counts
    THEN SumOver(user_access_counts[user_id], DOMAIN user_access_counts[user_id])
    ELSE 0

PhiEventsOf(user_id) ==
    { i \in 1..Len(events) : events[i].user_id = user_id /\ events[i].patient_id # None }

DistinctPatientsBefore(i) ==
    { events[j].patient_id :
        j \in { m \in 1..(i - 1) :
                  /\ events[m].user_id = events[i].user_id
                  /\ events[m].patient_id # None
                  /\ events[m].timestamp > events[i].timestamp - 10 } }

AllReturned == \A th \in Threads : pc[th] = "done"

C10_Serializable ==
    AllReturned =>
        /\ \A u \in UserIds : TrackedTotal(u) = Cardinality(PhiEventsOf(u))
        /\ \A i \in 1..Len(events) :
             events[i].event_type # "unauthorized_access" =>
                 ( events[i].event_type = "bulk_data_access"
                     <=> Cardinality(DistinctPatientsBefore(i)) >= 10 )

(***************************************************************************)
(* C11: the windows of rules 4 and 5 end at the timestamp of the event     *)
(* being classified.  A prior event of the same user counts iff it was     *)
(* stamped within 60 (rule 4) or 10 (rule 5) minutes before the new        *)
(* event's own timestamp, so the verdict of an event that is not           *)
(* unauthorized-access follows from those two counts, however long the     *)
(* clock runs between the stamp and the scans.                             *)
(***************************************************************************)
StampRule4Count == Cardinality(PhiWithin(last.call.user_id, last.clk[1], 60))

StampRule5Count ==
    Cardinality({ PriorLog[i].patient_id : i \in PhiWithin(last.call.user_id, last.clk[1], 10) })

C11_WindowsEndAtStamp ==
    (Logged /\ ~Matches1) =>
        /\ Recorded.event_type = "bulk_data_access" <=> StampRule5Count >= 10
        /\ Recorded.event_type # "bulk_data_access" =>
               (Recorded.event_type = "excessive_queries" <=> StampRule4Count > 20)

(***************************************************************************)
(* C12: log_event never fails.  A call whose event_type is a member of the *)
(* enumeration, with any value (None included) of resource_id, patient_id, *)
(* ip_address and details, raises nothing, appends exactly one event at    *)
(* the end of the log, runs the tracker update (one counter of the user    *)
(* and current date incremented when a patient id is given, nothing        *)
(* otherwise), and returns the very event it appended.                     *)
(***************************************************************************)
CountOf(counts, user_id, date) ==
    IF user_id \in DOMAIN counts /\ date \in DOMAIN counts[user_id]
    THEN counts[user_id][date] ELSE 0

C13_RejectsUnknownType ==
    [][ (calls' = calls + 1 /\ last'.call.event_type \notin AuditEventType) =>
          /\ last'.raised
          /\ events' = events
          /\ event_counter' = event_counter
          /\ user_access_counts' = user_access_counts ]_vars

(***************************************************************************)
(* C14 as stated: for every user the per-day counters of the tracker add   *)
(* up to the number of log events of that user with a non-null patient_id. *)
(***************************************************************************)
C14_AsStated ==
    \A u \in UserIds : TrackedTotal(u) = Cardinality(PhiEventsOf(u))

(***************************************************************************)
(* C14 amended: a log_event whose patient_id is absent or empty leaves the *)
(* tracker unchanged and one with a non-empty patient_id increments the    *)
(* counter of (user_id, current date) by one and no other, so that for     *)
(* every user the per-day counters add up to the number of log events of   *)
(* that user with a non-empty patient_id.                                  *)
(***************************************************************************)
NonEmptyPhiEventsOf(user_id) ==
    { i \in 1..Len(events) : events[i].user_id = user_id /\ events[i].patient_id \notin {None, ""} }

C14_TrackerMatchesLog ==
    /\ [](\A u \in UserIds : TrackedTotal(u) = Cardinality(NonEmptyPhiEventsOf(u)))
    /\ [][ calls' = calls + 1 =>
             \A u \in UserIds, d \in {0, 1} :
                 CountOf(user_access_counts', u, d)
                   = CountOf(user_access_counts, u, d)
                     + (IF /\ last'.call.patient_id \notin {None, ""}
                           /\ u = last'.call.user_id /\ d = DateOf(now)
                        THEN 1 ELSE 0) ]_vars

\* one user logged an empty patient id on day 0 and a patient on day 1
C14_Witness ==
    /\ Logged
    /\ Len(events) = 2
    /\ events[1].user_id = "UP002" /\ events[1].patient_id = ""
    /\ events[2].user_id = "UP002" /\ events[2].patient_id = "P01"
    /\ events[2].timestamp = 1440
    /\ TrackedTotal("UP002") = 1
    /\ CountOf(user_access_counts, "UP002", 1) = 1

(***************************************************************************)
(* C15: the log is in chronological order of creation.  Of any two         *)
(* entries the earlier one in the log has the smaller id (the number       *)
(* after "AUD-") and a timestamp no later than the later one's.  Both      *)
(* orders are transitive, so they are stated on every pair of neighbours.  *)
(***************************************************************************)
RECURSIVE DigitsValue(_, _)
DigitsValue(ds, i) == IF i = 0 THEN 0 ELSE 10 * DigitsValue(ds, i - 1) + ds[i]

IdNumber(id) == DigitsValue(id.digits, Len(id.digits))

C15_ChronologicalLog ==
    \A i \in 1..(Len(events) - 1) :
        /\ IdNumber(events[i].id) < IdNumber(events[i + 1].id)
        /\ events[i].timestamp <= events[i + 1].timestamp

\* a 22nd event logged later than the 21 before it
C15_Witness ==
    /\ Logged
    /\ Len(events) = 22
    /\ IdNumber(Recorded.id) = 22
    /\ IdNumber(events[1].id) = 1
    /\ Recorded.timestamp > events[21].timestamp
    /\ events[21].timestamp = events[1].timestamp

(***************************************************************************)
(* The reports as the specification words them.  A step that leaves the    *)
(* log, the number of calls and the clock alone and changes `result` is a  *)
(* query; its result is computed on the log of that step.                  *)
(***************************************************************************)
QueryStep == events' = events /\ calls' = calls /\ ticks' = ticks

Reverse(seq) == [i \in 1..Len(seq) |-> seq[Len(seq) + 1 - i]]

\* the events of the log `evs` a query (op, args) is about, in log order
Matching(evs, op, args) ==
    LET keep(e) ==
            CASE op = "get_all_events"         -> TRUE
              [] op = "get_user_activity"      -> e.user_id = args[1]
              [] op = "get_patient_access_log" -> e.patient_id = args[1]
    IN SelectSeq(evs, keep)

\* the `limit` most recently logged of them (all if fewer), the latest first
MostRecentlyLogged(evs, op, args, limit) ==
    LET m == Matching(evs, op, args)
    IN SubSeq(Reverse(m), 1, IF limit < Len(m) THEN limit ELSE Len(m))

(***************************************************************************)
(* C16: all_events(limit), user_activity(user_id, limit) and               *)
(* patient_access_log(patient_id, limit), for a limit of zero or more,     *)
(* return exactly the min(limit, matches) most recently logged events      *)
(* that match the filter, the most recent first, also when several events  *)
(* carry the same timestamp.                                               *)
(***************************************************************************)
C16_MostRecentFirst ==
    [][ ( /\ QueryStep
          /\ result'.op \in { "get_all_events", "get_user_activity", "get_patient_access_log" } )
        => LET limit == result'.args[Len(result'.args)]
           IN limit >= 0 =>
                result'.value = MostRecentlyLogged(events', result'.op, result'.args, limit) ]_vars

(***************************************************************************)
(* C17: violations(limit = N) returns no more than N events (none for a    *)
(* negative N), and each of them is an event of the log with               *)
(* is_violation = true.                                                    *)
(***************************************************************************)
C17_ViolationsBounded ==
    [][ (QueryStep /\ result'.op = "get_violations")
        => LET limit == result'.args[1]
               value == result'.value
           IN /\ Len(value) <= (IF limit < 0 THEN 0 ELSE limit)
              /\ \A k \in 1..Len(value) :
                   /\ value[k].is_violation
                   /\ \E i \in 1..Len(events') : events'[i] = value[k] ]_vars

(***************************************************************************)
(* C18: violations_by_severity(severity) returns exactly the violations of *)
(* the log at that severity, all of them, in log order: its k-th element   *)
(* is the k-th such event of the log.                                      *)
(***************************************************************************)
ViolationsAt(evs, severity) ==
    { i \in 1..Len(evs) : evs[i].is_violation /\ evs[i].violation_severity = severity }

C18_BySeverityInLogOrder ==
    [][ (QueryStep /\ result'.op = "get_violations_by_severity")
        => LET idx   == ViolationsAt(events', result'.args[1])
               value == result'.value
           IN /\ Len(value) = Cardinality(idx)
              /\ \A i \in idx : value[Cardinality({ j \in idx : j <= i })] = events'[i] ]_vars

\* two low violations logged a minute apart, returned oldest first
C18_Witness ==
    /\ Len(events) = 2
    /\ events[1].violation_severity = "low" /\ events[2].violation_severity = "low"
    /\ events[1].timestamp < events[2].timestamp
    /\ result.op = "get_violations_by_severity"
    /\ result.args = << "low" >>
    /\ result.value = << events[1], events[2] >>

(***************************************************************************)
(* C19: summary_stats() reports, for the log at the call: total_events,    *)
(* the log length; today_events, the events stamped at or after local      *)
(* midnight of the current day; total_violations and today_violations,     *)
(* the same two counts over the violations; violations_by_severity, for    *)
(* each of the four severities the violations at it; unique_users_today,   *)
(* the distinct user ids among today's events.                             *)
(***************************************************************************)
C19_SummaryStats ==
    [][ (QueryStep /\ result'.op = "get_summary_stats")
        => LET evs      == events'
               midnight == 1440 * (now' \div 1440)
               All      == 1..Len(evs)
               Today    == { i \in All : evs[i].timestamp >= midnight }
               Viol     == { i \in All : evs[i].is_violation }
               v        == result'.value
           IN /\ v.total_events = Len(evs)
              /\ v.today_events = Cardinality(Today)
              /\ v.total_violations = Cardinality(Viol)
              /\ v.today_violations = Cardinality(Today \cap Viol)
              /\ DOMAIN v.violations_by_severity = { "low", "medium", "high", "critical" }
              /\ \A sev \in { "low", "medium", "high", "critical" } :
                   v.violations_by_severity[sev]
                     = Cardinality({ i \in Viol : evs[i].violation_severity = sev })
              /\ v.unique_users_today = Cardinality({ evs[i].user_id : i \in Today }) ]_vars

\* a summary at 00:00 of day 1 over one violation of day 0 and one of day 1
C19_Witness ==
    /\ result.op = "get_summary_stats"
    /\ result.args = << 1440 >>
    /\ Len(events) = 2
    /\ events[1].timestamp = 1439 /\ events[2].timestamp = 1440
    /\ result.value.total_events = 2
    /\ result.value.today_events = 1
    /\ result.value.total_violations = 2
    /\ result.value.today_violations = 1
    /\ result.value.unique_users_today = 1

(***************************************************************************)
(* C20 as stated: two calls of summary_stats() with no log_event between   *)
(* them (the log has the same length at both) return identical results,    *)
(* whatever time passes between them.                                      *)
(***************************************************************************)
TwoSummaries ==
    /\ result.op = "get_summary_stats"
    /\ result.prev # << >>
    /\ result.prev[2].total_events = result.value.total_events

C20_AsStated == TwoSummaries => result.value = result.prev[2]

(***************************************************************************)
(* C20 amended: two calls of summary_stats() with no log_event between     *)
(* them and made on the same local date return identical results; across   *)
(* local midnight the counts that do not depend on the day (total_events,  *)
(* total_violations, violations_by_severity) are still identical.          *)
(***************************************************************************)
C20_SummaryRepeatable ==
    TwoSummaries =>
        /\ DateOf(result.prev[1]) = DateOf(result.args[1]) => result.value = result.prev[2]
        /\ result.value.total_events = result.prev[2].total_events
        /\ result.value.total_violations = result.prev[2].total_violations
        /\ result.value.violations_by_severity = result.prev[2].violations_by_severity

\* summaries at 23:58 and 23:59 over the same one-event log
C20_Witness ==
    /\ TwoSummaries
    /\ result.prev[1] = 1438 /\ result.args[1] = 1439
    /\ Len(events) = 1
    /\ result.value.today_events = 1
    /\ result.value = result.prev[2]

(***************************************************************************)
(* C21: every query is read-only.  A step that returns a report leaves     *)
(* the log (its length, its order, every field of every event), the id     *)
(* counter and the access tracker as they were.                            *)
(***************************************************************************)
C21_QueriesReadOnly ==
    [][ result' # result =>
          /\ events' = events
          /\ event_counter' = event_counter
          /\ user_access_counts' = user_access_counts ]_vars

\* user_activity returned two events in another order than the log's, which is intact
C21_Witness ==
    /\ Len(events) = 2
    /\ event_counter = 2
    /\ events[1].timestamp < events[2].timestamp
    /\ IdNumber(events[1].id) = 1 /\ IdNumber(events[2].id) = 2
    /\ result.op = "get_user_activity"
    /\ result.value = << events[2], events[1] >>
    /\ TrackedTotal(result.args[1]) = 2

(***************************************************************************)
(* C26: rule 3 fires only when details.user_patient_id is present.  A      *)
(* patient-role event whose details carry no user_patient_id (absent or    *)
(* empty), whichever patient it targets, or whose user_patient_id equals   *)
(* its patient_id, is never given rule 3's verdict.                        *)
(***************************************************************************)
C26_Rule3NeedsUserPatientId ==
    ( /\ Logged
      /\ last.call.user_role = "patient"
      /\ \/ ~UserPatientIdPresent
         \/ last.call.details["user_patient_id"] = ""
         \/ last.call.details["user_patient_id"] = last.call.patient_id )
    => /\ Recorded.violation_severity # "critical"
       /\ Recorded.violation_reason # << "Patient attempted to access another patient's records" >>

\* a patient-role view of P10 with an empty user_patient_id, recorded unflagged
C26_Witness ==
    /\ Logged
    /\ last.call.user_role = "patient"
    /\ last.call.patient_id = "P10"
    /\ UserPatientIdPresent
    /\ last.call.details["user_patient_id"] = ""
    /\ last.call.event_type = "view_health_record"
    /\ ~Recorded.is_violation

(***************************************************************************)
(* C27: rules 4 and 5 are evaluated for every event that is not            *)
(* unauthorized-access, whatever its type and with or without patient_id.  *)
(* An event without patient_id of a user whose prior PHI events exceed a   *)
(* threshold is recorded as a violation and relabelled bulk-data-access    *)
(* (rule 5) or excessive-queries (rule 4 alone), and no event without      *)
(* patient_id is counted by the scans of a later event: the count a rule   *)
(* reports is the count over the prior events that carry a patient id.     *)
(***************************************************************************)
C27_VolumeRulesForEveryEvent ==
    (Logged /\ ~Matches1) =>
        /\ Matches5 => IsRule5Output(Recorded)
        /\ (Matches4 /\ ~Matches5) => IsRule4Output(Recorded)
        /\ (last.call.patient_id = None /\ (Matches4 \/ Matches5)) =>
               /\ Recorded.is_violation
               /\ Recorded.patient_id = None
               /\ Recorded.event_type \in { "excessive_queries", "bulk_data_access" }
        /\ Recorded.event_type = "excessive_queries" =>
               Recorded.violation_reason[2] =
                   Cardinality({ i \in 1..Len(PriorLog) :
                                   /\ PriorLog[i].user_id = last.call.user_id
                                   /\ PriorLog[i].patient_id # None
                                   /\ PriorLog[i].timestamp > last.clk[2] - 60 })

\* a login flagged excessive-queries over 21 views, then a second login flagged with
\* the same count of 21: the first login is in the log and was not counted
C27_Witness ==
    /\ Logged
    /\ Len(events) = 23
    /\ events[22].patient_id = None
    /\ events[22].event_type = "excessive_queries"
    /\ events[22].user_id = last.call.user_id
    /\ last.call.event_type = "login"
    /\ last.call.patient_id = None
    /\ Recorded.event_type = "excessive_queries"
    /\ Recorded.violation_reason = << "Excessive PHI queries: accesses in last hour", 21 >>

(***************************************************************************)
(* C28: rule 5 is sticky inside its window and expires with it.  While     *)
(* the events of user U stamped in the 10 minutes up to the scan hold at   *)
(* least 10 distinct patients, a further event of U that is not            *)
(* unauthorized-access is recorded as bulk-data-access with severity high, *)
(* whichever patient (a new one, one already seen, none) it is about;      *)
(* once they hold fewer than 10, the next event is not flagged by rule 5.  *)
(***************************************************************************)
TrailingPatients ==
    { PriorLog[i].patient_id :
        i \in { j \in 1..Len(PriorLog) :
                  /\ PriorLog[j].user_id = last.call.user_id
                  /\ PriorLog[j].patient_id # None
                  /\ last.clk[3] - PriorLog[j].timestamp < 10 } }

C28_BulkStickyThenExpires ==
    /\ (Logged /\ ~Matches1) =>
         IF Cardinality(TrailingPatients) >= 10
         THEN /\ Recorded.event_type = "bulk_data_access"
              /\ Recorded.is_violation
              /\ Recorded.violation_severity = "high"
         ELSE /\ Recorded.event_type # "bulk_data_access"
              /\ ( \/ Recorded.violation_reason = << >>
                   \/ Recorded.violation_reason[1]
                        # "Bulk PHI access: different patients in 10 minutes" )
    \* the events of the workload, each scanned at the clock of its own stamp
    /\ \A i \in 1..Len(events) :
         ((i < Len(events) \/ ~Logged) /\ events[i].event_type # "unauthorized_access") =>
             ( events[i].event_type = "bulk_data_access"
                 <=> Cardinality(DistinctPatientsBefore(i)) >= 10 )

\* 10 patients viewed at one time, and an event of the same user logged 50 minutes
\* later, after the window: not flagged by rule 5
C28_Witness ==
    /\ Logged /\ ~Matches1
    /\ Len(PriorLog) = 10
    /\ Cardinality({ PriorLog[i].patient_id : i \in 1..10 }) = 10
    /\ last.call.user_id = PriorLog[1].user_id
    /\ last.clk[3] - PriorLog[10].timestamp >= 10
    /\ TrailingPatients = {}
    /\ Recorded.event_type # "bulk_data_access"

(***************************************************************************)
(* C29: for every user and every date the tracker's counter equals the     *)
(* number of log events of that user with a non-null patient_id and a      *)
(* timestamp on that date, also when midnight passes between the stamp     *)
(* and the tracker update of one call.                                     *)
(***************************************************************************)
C29_TrackerMatchesLogPerDay ==
    \A u \in UserIds, d \in 0..2 :
        CountOf(user_access_counts, u, d)
          = Cardinality({ i \in 1..Len(events) :
                            /\ events[i].user_id = u
                            /\ events[i].patient_id # None
                            /\ DateOf(events[i].timestamp) = d })

(***************************************************************************)
(* Vocabulary of the route properties.  Under RouteSpec every step that    *)
(* leaves the clock alone is one request, and result' is its response.     *)
(***************************************************************************)
RouteStep == now' = now /\ ticks' = ticks

PhiRoutes ==
    { "list_patients", "search_patients", "get_patient", "get_patient_records",
      "get_patient_chat_history", "list_appointments", "get_appointment",
      "create_new_appointment", "update_appointment_endpoint", "cancel_appointment" }

AuditRoutes ==
    { "get_audit_log", "get_violations", "get_compliance_summary", "get_patient_access_log",
      "get_user_activity", "generate_sample_events" }

NonOwners == { u.id : u \in { v \in RouteUsers : v.role # "owner" } }

(***************************************************************************)
(* C22: every route that returns or modifies a patient's PHI (patient      *)
(* list, search, detail, health records, chat history, appointment list,   *)
(* detail, create, update, cancel) calls log_event: each request of such a *)
(* route that succeeds (200, 201, 204) adds at least one event to the log. *)
(***************************************************************************)
C22_EveryPhiRouteLogs ==
    [][ (RouteStep /\ result'.op \in PhiRoutes /\ result'.status \in { 200, 201, 204 })
            => Len(events') > Len(events) ]_vars

(***************************************************************************)
(* C23: the audit read endpoints and the demo generator serve the owner    *)
(* only.  A request of any other role is answered 403 with the error       *)
(* detail and nothing else, and leaves the log, the id counter and the     *)
(* tracker as they were.                                                   *)
(***************************************************************************)
C23_AuditRoutesOwnerOnly ==
    [][ (RouteStep /\ result'.op \in AuditRoutes /\ result'.user \in NonOwners)
            => /\ result'.status = 403
               /\ result'.value = HttpError("Forbidden: insufficient role")
               /\ events' = events
               /\ event_counter' = event_counter
               /\ user_access_counts' = user_access_counts ]_vars

\* the doctor was refused the demo generator over a log that holds its five events
C23_Witness ==
    /\ result.op = "generate_sample_events"
    /\ result.user = "UDOCTOR"
    /\ result.status = 403
    /\ Len(events) = 5

(***************************************************************************)
(* C24 as stated: every severity filter passed to /violations that does    *)
(* not name one of low, medium, high, critical is answered 400, with no    *)
(* violation list.                                                         *)
(***************************************************************************)
C24_AsStated ==
    [][ (/\ RouteStep
         /\ result'.op = "get_violations"
         /\ result'.user = "UOWNER"
         /\ result'.args[1] # None
         /\ Lower(result'.args[1]) \notin ViolationSeverity)
            => /\ result'.status = 400
               /\ result'.value = HttpError("Invalid severity") ]_vars

(***************************************************************************)
(* C24: a non-empty severity filter that names none of the four            *)
(* severities, letter case ignored, is answered 400 with the error detail  *)
(* and no violation list.  An empty filter counts as no filter: it is      *)
(* answered 200 with the unfiltered violation list.                        *)
(***************************************************************************)
C24_InvalidSeverityRejected ==
    [][ (RouteStep /\ result'.op = "get_violations" /\ result'.user = "UOWNER")
            => /\ (Truthy(result'.args[1]) /\ Lower(result'.args[1]) \notin ViolationSeverity)
                    => /\ result'.status = 400
                       /\ result'.value = HttpError("Invalid severity")
               /\ result'.args[1] = ""
                    => /\ result'.status = 200
                       /\ result'.value.violations
                            = ViolationsJson(GetViolations(events, result'.args[2])) ]_vars

\* the owner asked for severity "severe" over a log that holds violations
C24_Witness ==
    /\ result.op = "get_violations"
    /\ result.user = "UOWNER"
    /\ result.args[1] = "severe"
    /\ result.status = 400
    /\ \E i \in 1..Len(events) : events[i].is_violation

(***************************************************************************)
(* C30: /compliance/violations truncates differently on its two paths,     *)
(* for a limit of zero or more.  Without a severity filter the answer      *)
(* holds min(limit, n) violations, newest timestamp first, and no          *)
(* violation left out is newer than one returned.  With a valid filter it  *)
(* holds the first min(limit, n) violations of that severity in log order: *)
(* the oldest ones, oldest first.                                          *)
(***************************************************************************)
ViolationsInLog ==
    LET keep(e) == e.is_violation
    IN SelectSeq(events, keep)

OfSeverityInLog(severity) ==
    LET keep(e) == e.is_violation /\ e.violation_severity = severity
    IN SelectSeq(events, keep)

StampOfId(id) == events[CHOOSE i \in 1..Len(events) : events[i].id = id].timestamp

AtMost(limit, n) == IF limit < n THEN limit ELSE n

C30_TwoTruncations ==
    (result.op = "get_violations" /\ result.status = 200 /\ result.args[2] >= 0) =>
        LET limit == result.args[2]
            returned == result.value.violations
            ids == { returned[i].id : i \in 1..Len(returned) }
        IN /\ result.value.total = Len(returned)
           /\ IF Truthy(result.args[1])
              THEN LET oldest == OfSeverityInLog(Lower(result.args[1]))
                   IN returned = ViolationsJson(SubSeq(oldest, 1, AtMost(limit, Len(oldest))))
              ELSE /\ Len(returned) = AtMost(limit, Len(ViolationsInLog))
                   /\ Cardinality(ids) = Len(returned)
                   /\ \A i \in 1..Len(returned) :
                        \E k \in 1..Len(ViolationsInLog) :
                            returned[i] = ViolationsJson(<< ViolationsInLog[k] >>)[1]
                   /\ \A i, j \in 1..Len(returned) :
                        i < j => StampOfId(returned[i].id) >= StampOfId(returned[j].id)
                   /\ \A k \in 1..Len(ViolationsInLog) :
                        ViolationsInLog[k].id \notin ids =>
                            \A i \in 1..Len(returned) :
                                ViolationsInLog[k].timestamp <= StampOfId(returned[i].id)

\* two high violations a minute apart, severity=HIGH and limit=1: the older one is returned
C30_Witness ==
    /\ result.op = "get_violations"
    /\ result.status = 200
    /\ result.args = << "HIGH", 1 >>
    /\ Len(OfSeverityInLog("high")) = 2
    /\ OfSeverityInLog("high")[1].timestamp < OfSeverityInLog("high")[2].timestamp
    /\ Len(result.value.violations) = 1
    /\ result.value.violations[1].id = OfSeverityInLog("high")[1].id

(***************************************************************************)
(* C25: there is exactly one audit engine per process, racing first calls  *)
(* of get_audit_logger() included: at most one instance is ever built,     *)
(* and whenever no call is in progress every event that log_phi_access     *)
(* recorded is in the log of the instance the global names, which is the   *)
(* log every later query reads.                                            *)
(***************************************************************************)
C25_OneEngine ==
    /\ Len(instances) <= 1
    /\ (\A th \in Threads : pc[th] = "idle") =>
          \A k \in 1..Len(instances) : \A i \in 1..Len(instances[k].events) :
              \E j \in 1..Len(instances[audit_logger].events) :
                  instances[audit_logger].events[j] = instances[k].events[i]

====
